---- MODULE Spec2Model ----
(***************************************************************************)
(* Model of the stream reassembly and framing engine of bblogger:          *)
(* _PacketBuffer and BlueBerryDeserializer (src/bblogger/deserialize.py)   *)
(* and the notification handler of BlueBerryClient.fetch                    *)
(* (src/bblogger/ble.py); further the command, passcode and configuration   *)
(* calls of BlueBerryClient, the firmware transfer and the address          *)
(* arithmetic of src/bblogger/dfu.py, and the adapter scan and the          *)
(* notification reads of src/bblogger/bluetoothle/ble_linux.py.             *)
(*                                                                         *)
(* A byte is a number of Byte.  The record codec (protobuf, schema          *)
(* bb_log_entry) is outside the repository; it is modelled by a small wire  *)
(* format with the properties the decoder relies on: a payload is a run of  *)
(* fields, each introduced by a tag byte; tag 0 is illegal, tags 1 and 2    *)
(* are fields whose value is abstracted to their presence (timestamp,       *)
(* pressure) and tag 3 (temperature) is followed by one value byte, so a    *)
(* payload ending in tag 3 is truncated.                                     *)
(***************************************************************************)
EXTENDS Integers, Sequences, FiniteSets, Bags, TLC

\* ---------------------------------------------------------------- bounds
MaxStream == 5      \* longest arbitrary byte stream delivered to a session
MaxValidLen == 9    \* longest well-formed stream (frames + sentinel)
MaxEmpty == 2       \* empty notifications delivered to a session
MaxNum == 2         \* largest entry limit passed to fetch(num=...)
MaxSwapLen == 6     \* longest well-formed stream delivered with two packets swapped
MaxFullStream == 3  \* longest byte stream delivered to a session close to capacity
MaxRoom == 2        \* free places of the packet buffer when such a session starts
MaxClientStream == 3 \* longest byte stream delivered while the coroutine of a fetch is followed
MaxRxSize == 2      \* largest response size of a command
MaxWarned == 1      \* disconnect callbacks of other clients
MaxFwLen == 5       \* longest firmware image and init packet, in bytes
MaxObjSize == 2     \* largest max_size a device reports for an object
MaxHops == 2        \* dfu_addr / app_addr calls chained on one address
MaxNotifBytes == 4  \* bytes a characteristic notifies in all
MaxPayload == 2     \* longest notification payload
MaxReadSize == 3    \* largest len_ of a sized read
MaxReads == 3       \* read calls followed

\* ------------------------------------------------------ program constants
PktBufMaxLen == 128 \* deque(maxlen=128)
msg_hist_len == 32  \* __init__(..., msg_hist_len=32)

None == -1          \* Python's None where an int is expected
NoOrder == <<None>> \* pkt_order=None
NoKeyset == {"<None>"} \* _prev_keyset = None

Byte == 0..3
TagTimestamp == 1
TagPressure == 2
TagTemperature == 3

\* pkt_order=[0, 2, 1, 3, 4] # 0 is oldest
RecoveryOrder == <<0, 2, 1, 3, 4>>

\* ------------------------------------------------------------- sequences
Take(s, n) == SubSeq(s, 1, IF n < Len(s) THEN n ELSE Len(s))
Drop(s, n) == SubSeq(s, n + 1, Len(s))

RECURSIVE Flatten(_)
Flatten(q) == IF q = <<>> THEN <<>> ELSE Head(q) \o Flatten(Tail(q))

\* ---------------------------------------------------------- _PacketBuffer

\* write as a bug would have it: the new packet replaces the queue
Write_Replace(q, data) ==
    IF Len(q) >= PktBufMaxLen
    THEN [err |-> TRUE, q |-> q]
    ELSE [err |-> FALSE, q |-> <<data>>]

\* write as a bug would have it: no capacity check, so that the append on a
\* deque(maxlen=128) at capacity discards the oldest packet
Write_Evict(q, data) ==
    IF Len(q) >= PktBufMaxLen
    THEN [err |-> FALSE, q |-> Append(Tail(q), data)]
    ELSE [err |-> FALSE, q |-> Append(q, data)]

\* write: [err, q]
Write(q, data) ==
    IF Len(q) >= PktBufMaxLen
    THEN [err |-> TRUE, q |-> q]
    ELSE [err |-> FALSE, q |-> Append(q, data)]

\* range(0, len(self._q)) when pkt_order is None
OrderOf(q, pkt_order) ==
    IF pkt_order = NoOrder THEN [i \in 1..Len(q) |-> i - 1] ELSE pkt_order

RECURSIVE PeekLoop(_, _, _, _, _)
PeekLoop(q, size, order, k, res) ==
    IF k > Len(order) THEN res
    ELSE LET i == order[k]
             remains == size - Len(res)
         IN  IF remains <= 0 THEN res
             ELSE IF i >= Len(q) THEN res      \* IndexError: break
             ELSE PeekLoop(q, size, order, k + 1, res \o Take(q[i + 1], remains))

\* peek as a bug would have it: only the oldest packet is read
Peek_HeadOnly(q, size, pkt_order) ==
    IF size = 0 \/ q = <<>> THEN <<>> ELSE Take(q[1], size)

Peek(q, size, pkt_order) ==
    IF size = 0 THEN <<>>
    ELSE PeekLoop(q, size, OrderOf(q, pkt_order), 1, <<>>)

\* getc: [err, c, q]; err is EOFError
Getc(q) ==
    IF Len(q) = 0 \/ Len(q[1]) = 0
    THEN [err |-> TRUE, c |-> None, q |-> q]
    ELSE [err |-> FALSE, c |-> q[1][1], q |-> [q EXCEPT ![1] = Tail(q[1])]]

RECURSIVE SeekLoop(_, _, _, _, _)
SeekLoop(q, order, k, remains, to_del) ==
    IF k > Len(order) THEN [q |-> q, remains |-> remains, to_del |-> to_del]
    ELSE LET i == order[k] IN
         IF i >= Len(q)                        \* IndexError: break
         THEN [q |-> q, remains |-> remains, to_del |-> to_del]
         ELSE LET pkt == q[i + 1] IN
              IF remains < Len(pkt)
              THEN [q |-> [q EXCEPT ![i + 1] = Drop(pkt, remains)],
                    remains |-> 0, to_del |-> to_del]
              ELSE IF remains - Len(pkt) <= 0
              THEN [q |-> q, remains |-> remains - Len(pkt),
                    to_del |-> to_del \cup {i}]
              ELSE SeekLoop(q, order, k + 1, remains - Len(pkt), to_del \cup {i})

RECURSIVE DelIdx(_, _, _)
DelIdx(q, to_del, i) ==
    IF i > Len(q) THEN <<>>
    ELSE (IF (i - 1) \in to_del THEN <<>> ELSE <<q[i]>>) \o DelIdx(q, to_del, i + 1)

\* seek_fwd as a bug would have it: the partly consumed packet is deleted
\* whole
SeekFwd_DropPartial(q, size, pkt_order) ==
    IF size = 0 THEN [err |-> FALSE, q |-> q]
    ELSE LET r == SeekLoop(q, OrderOf(q, pkt_order), 1, size, {}) IN
         IF r.remains > 0
         THEN [err |-> TRUE, q |-> r.q]
         ELSE [err |-> FALSE,
               q |-> DelIdx(r.q, r.to_del \cup {i \in 0..(Len(q) - 1) : r.q[i + 1] # q[i + 1]}, 1)]

\* seek_fwd as a bug would have it: consumed packets are never deleted
SeekFwd_KeepPackets(q, size, pkt_order) ==
    IF size = 0 THEN [err |-> FALSE, q |-> q]
    ELSE LET r == SeekLoop(q, OrderOf(q, pkt_order), 1, size, {}) IN
         [err |-> r.remains > 0, q |-> r.q]

\* seek_fwd: [err, q]; err is EOFError
SeekFwd(q, size, pkt_order) ==
    IF size = 0 THEN [err |-> FALSE, q |-> q]
    ELSE LET r == SeekLoop(q, OrderOf(q, pkt_order), 1, size, {}) IN
         IF r.remains > 0
         THEN [err |-> TRUE, q |-> r.q]
         ELSE [err |-> FALSE, q |-> DelIdx(r.q, r.to_del, 1)]

\* ------------------------------------------------------------ the codec

\* a decoded message: a set of <<name, value>>, one value per name
Put(m, name, v) == {e \in m : e[1] # name} \cup {<<name, v>>}
Keys(m) == {e[1] : e \in m}

RECURSIVE FromStringAt(_, _, _)
FromStringAt(b, i, pb) ==
    IF i > Len(b) THEN [err |-> FALSE, pb |-> pb]
    ELSE IF b[i] = TagTimestamp THEN FromStringAt(b, i + 1, Put(pb, "timestamp", 0))
    ELSE IF b[i] = TagPressure THEN FromStringAt(b, i + 1, Put(pb, "pressure", 0))
    ELSE IF b[i] = TagTemperature /\ i < Len(b)
         THEN FromStringAt(b, i + 2, Put(pb, "temperature", b[i + 1]))
    ELSE [err |-> TRUE, pb |-> pb]             \* DecodeError

\* self._pb.FromString(msg_bytes): [err, pb]
FromString(msg_bytes) == FromStringAt(msg_bytes, 1, {})

\* _PBNAME_TO_FLD[descr.name].colnames[0]
ColName(pbname) ==
    CASE pbname = "timestamp" -> "TS"
      [] pbname = "pressure" -> "p"
      [] pbname = "temperature" -> "t"

\* _COLNAME_TO_FLD[k].tounit(v), the quotient as <<numerator, denominator>>
ToUnit(col, v) ==
    CASE col = "TS" -> <<v, 1>>
      [] col = "p" -> <<v, 100>>
      [] col = "t" -> <<v, 1000>>

MessageToOrderedDict(pb) == {<<ColName(e[1]), e[2]>> : e \in pb}

\* the keys of _PBNAME_TO_FLD that the modelled schema uses
PbNames == {"timestamp", "pressure", "temperature"}

\* -------------------------------------------------- BlueBerryDeserializer

\* The object after __init__.  out is what was written to ofile (one entry
\* per _append_fmt call), dumps what _dump_msg_hist printed, eol the number
\* of "End of log msg received" lines; attempts counts the FromString calls
\* made on the payload window of the current length byte; pb_fields holds
\* the names of self._pb.DESCRIPTOR.fields.
InitBbd ==
    [q |-> <<>>, msg_size |-> None, fail_count |-> 0, msg_count |-> 0,
     msg_hist |-> <<>>, prev_keyset |-> NoKeyset,
     out |-> <<>>, dumps |-> <<>>, eol |-> 0, attempts |-> 0,
     pb_fields |-> PbNames]

\* the lookup as a bug would have it: a name the table lacks is skipped
UnknownField_Skipped(s) == FALSE

\* fld = _PBNAME_TO_FLD[descr.name] for descr in pb.DESCRIPTOR.fields:
\* KeyError when the schema has a name the table lacks
UnknownField(s) == \E name \in s.pb_fields : name \notin PbNames

\* _did_keys_change as a bug would have it: the new keys are not stored
DidKeysChange_NoStore(prev_keyset, keys) ==
    [add_header |-> IF prev_keyset = keys THEN 0
                    ELSE IF prev_keyset # NoKeyset THEN 1 ELSE 2,
     prev_keyset |-> prev_keyset]

\* _did_keys_change: [add_header, prev_keyset]
DidKeysChange(prev_keyset, keys) ==
    IF prev_keyset # keys
    THEN [add_header |-> IF prev_keyset # NoKeyset THEN 1 ELSE 2, prev_keyset |-> keys]
    ELSE [add_header |-> 0, prev_keyset |-> prev_keyset]

\* _append with raw=False: one row handed to _append_fmt
AppendRow(s, odmsg) ==
    LET k == DidKeysChange(s.prev_keyset, Keys(odmsg)) IN
    [s EXCEPT !.prev_keyset = k.prev_keyset,
              !.out = Append(@, [keys |-> Keys(odmsg),
                                 vals |-> {<<e[1], ToUnit(e[1], e[2])>> : e \in odmsg},
                                 add_header |-> k.add_header])]

\* _is_end_of_log_msg as a bug would have it: only a lone TS ends the log
IsEndOfLogMsg_TsOnly(odm) == Cardinality(odm) = 1 /\ "TS" \in Keys(odm)

\* _is_end_of_log_msg: len(odm) == 1, a warning when the key is not TS
IsEndOfLogMsg(odm) == Cardinality(odm) = 1

\* parse_msg_bytes: [err, exc, done, s]; err says that exc was raised,
\* DecodeError by FromString or KeyError by _MessageToOrderedDict
ParseMsgBytes(s, msg_bytes) ==
    LET m == FromString(msg_bytes)
        odmsg == MessageToOrderedDict(m.pb)
        done == IsEndOfLogMsg(odmsg)
    IN  IF m.err THEN [err |-> TRUE, exc |-> "DecodeError", done |-> FALSE, s |-> s]
        ELSE IF UnknownField(s)
        THEN [err |-> TRUE, exc |-> "KeyError", done |-> FALSE, s |-> s]
        ELSE IF done
        THEN [err |-> FALSE, exc |-> "", done |-> TRUE, s |-> [s EXCEPT !.eol = @ + 1]]
        ELSE [err |-> FALSE, exc |-> "", done |-> FALSE, s |-> AppendRow(s, odmsg)]

\* the history as a bug would have it: a list that is never trimmed
HistAppend_Unbounded(h, entry) == Append(h, entry)

\* self._msg_hist.append(entry) on a deque(maxlen=msg_hist_len)
HistAppend(h, entry) ==
    IF Len(h) >= msg_hist_len THEN Append(Tail(h), entry) ELSE Append(h, entry)

\* the zero check as a bug would have it
IsZeroSize_Negative(msg_size) == msg_size < 0

\* if self._msg_size == 0: raise RuntimeError
IsZeroSize(msg_size) == msg_size = 0

\* parse_pkt_buf, lines 328-332: the length byte is read when none is
\* pending; [res, s] with res "ok" or the exception raised
ReadMsgSize(s) ==
    IF s.msg_size # None THEN [res |-> "ok", s |-> s]
    ELSE LET g == Getc(s.q) IN
         IF g.err THEN [res |-> "EOFError", s |-> s]
         ELSE [res |-> IF IsZeroSize(g.c) THEN "RuntimeError" ELSE "ok",
               s |-> [s EXCEPT !.q = g.q, !.msg_size = g.c, !.attempts = 0]]

\* the failed decode as a bug would have it: the window is skipped
ConsumeMsg_AdvanceOnError(p, msg_bytes, pkt_order) ==
    LET sk == SeekFwd(p.s.q, p.s.msg_size, pkt_order) IN
    IF p.err THEN [res |-> p.exc, s |-> [p.s EXCEPT !.q = sk.q]]
    ELSE IF sk.err THEN [res |-> "EOFError", s |-> [p.s EXCEPT !.q = sk.q]]
    ELSE [res |-> IF p.done THEN "True" ELSE "False",
          s |-> [p.s EXCEPT !.q = sk.q, !.msg_size = None, !.msg_count = @ + 1,
                            !.msg_hist = HistAppend(@, [count |-> p.s.msg_count,
                                                        size |-> p.s.msg_size,
                                                        bytes |-> msg_bytes,
                                                        err |-> ""])]]

\* parse_pkt_buf, lines 340-348, with p what parse_msg_bytes gave for
\* msg_bytes: the history entry, the counter and the bytes consumed
ConsumeMsg(p, msg_bytes, pkt_order) ==
    IF p.err THEN [res |-> p.exc, s |-> p.s]
    ELSE LET s2 == [p.s EXCEPT !.msg_hist = HistAppend(@, [count |-> p.s.msg_count,
                                                           size |-> p.s.msg_size,
                                                           bytes |-> msg_bytes,
                                                           err |-> ""]),
                               !.msg_count = @ + 1]
             sk == SeekFwd(p.s.q, p.s.msg_size, pkt_order)
         IN  IF sk.err THEN [res |-> "EOFError", s |-> [s2 EXCEPT !.q = sk.q]]
             ELSE [res |-> IF p.done THEN "True" ELSE "False",
                   s |-> [s2 EXCEPT !.q = sk.q, !.msg_size = None]]

\* parse_pkt_buf, lines 334-338, with s1 the object once the length byte is
\* known and msg_bytes what peek gave
ParseMsg(s1, msg_bytes, pkt_order) ==
    IF Len(msg_bytes) < s1.msg_size THEN [res |-> "EOFError", s |-> s1]
    ELSE ConsumeMsg(ParseMsgBytes([s1 EXCEPT !.attempts = @ + 1], msg_bytes),
                    msg_bytes, pkt_order)

\* parse_pkt_buf: [res, s] with res one of "True", "False" (the value
\* returned) or the exception raised
ParsePktBuf(s, pkt_order) ==
    LET h == ReadMsgSize(s) IN
    IF h.res # "ok" THEN h
    ELSE ParseMsg(h.s, Peek(h.s.q, h.s.msg_size, pkt_order), pkt_order)

\* _dump_msg_hist as a bug would have it: the buffered packets are left out
DumpMsgHist_NoPackets(s) ==
    [err |-> s.msg_size = None,
     s |-> [s EXCEPT !.dumps = Append(@, [hist |-> s.msg_hist, pkts |-> <<>>,
                                          count |-> s.msg_count, size |-> s.msg_size])]]

\* _dump_msg_hist: the history ring and the raw buffered packets go to
\* stderr; formatting _msg_size = None with {:04d} raises TypeError
DumpMsgHist(s) ==
    [err |-> s.msg_size = None,
     s |-> [s EXCEPT !.dumps = Append(@, [hist |-> s.msg_hist, pkts |-> s.q,
                                          count |-> s.msg_count, size |-> s.msg_size])]]

\* the retry as a bug would have it: fail_count is not reset
Recover_KeepFailCount(s) ==
    IF s.fail_count # 0
    THEN LET r == ParsePktBuf(s, RecoveryOrder)
             d == DumpMsgHist(r.s)
         IN  IF r.res \in {"DecodeError", "EOFError"}
             THEN [res |-> IF d.err THEN "TypeError" ELSE r.res, s |-> d.s]
             ELSE IF r.res \in {"RuntimeError", "KeyError"} THEN r
             ELSE [res |-> "ok", s |-> r.s]
    ELSE [res |-> "ok", s |-> s]

\* putb, lines 355-364: the retry under the alternate packet order
Recover(s) ==
    IF s.fail_count # 0
    THEN LET r == ParsePktBuf(s, RecoveryOrder)
             d == DumpMsgHist(r.s)
         IN  IF r.res \in {"DecodeError", "EOFError"}
             THEN [res |-> IF d.err THEN "TypeError" ELSE r.res, s |-> d.s]
             ELSE IF r.res \in {"RuntimeError", "KeyError"} THEN r
             ELSE [res |-> "ok", s |-> [r.s EXCEPT !.fail_count = 0]]
    ELSE [res |-> "ok", s |-> s]

\* the parse loop as a bug would have it: a rejected payload is retried
\* under the alternate order at once, in the same call
RECURSIVE ParseLoop_RetryAtOnce(_)
ParseLoop_RetryAtOnce(s) ==
    LET r == ParsePktBuf(s, NoOrder) IN
    CASE r.res = "True" -> r
      [] r.res = "False" -> ParseLoop_RetryAtOnce(r.s)
      [] r.res = "EOFError" -> [res |-> "False", s |-> r.s]
      [] r.res = "DecodeError" ->
            [res |-> "False",
             s |-> [ParsePktBuf(r.s, RecoveryOrder).s EXCEPT !.fail_count = @ + 1]]
      [] OTHER -> r

\* the parse loop as a bug would have it: a rejected payload counts twice
RECURSIVE ParseLoop_CountTwice(_)
ParseLoop_CountTwice(s) ==
    LET r == ParsePktBuf(s, NoOrder) IN
    CASE r.res = "True" -> r
      [] r.res = "False" -> ParseLoop_CountTwice(r.s)
      [] r.res = "EOFError" -> [res |-> "False", s |-> r.s]
      [] r.res = "DecodeError" -> [res |-> "False", s |-> [r.s EXCEPT !.fail_count = @ + 2]]
      [] OTHER -> r

\* putb, lines 366-378: parse until the buffer runs dry
RECURSIVE ParseLoop(_)
ParseLoop(s) ==
    LET r == ParsePktBuf(s, NoOrder) IN
    CASE r.res = "True" -> r
      [] r.res = "False" -> ParseLoop(r.s)
      [] r.res = "EOFError" -> [res |-> "False", s |-> r.s]
      [] r.res = "DecodeError" -> [res |-> "False", s |-> [r.s EXCEPT !.fail_count = @ + 1]]
      [] OTHER -> r

\* putb: [res, s, mid]; res is "True", "False" or the exception raised,
\* mid the object between the retry and the parse loop
Putb(s, data) ==
    LET w == Write(s.q, data)
        rec == Recover([s EXCEPT !.q = w.q])
        lp == ParseLoop(rec.s)
    IN  IF w.err THEN [res |-> "RuntimeError", s |-> s, mid |-> s]
        ELSE IF rec.res # "ok" THEN [res |-> rec.res, s |-> rec.s, mid |-> rec.s]
        ELSE [res |-> lp.res, s |-> lp.s, mid |-> rec.s]

\* ------------------------------------------------- BlueBerryClient.fetch

VARIABLES
    stream,     \* bytes the transport has still to deliver, in delivery order
    bbd,        \* the BlueBerryDeserializer of the fetch
    num,        \* fetch(num=...): the entry limit, None when absent
    evt_fetch,  \* self._evt_fetch.is_set()
    err_fetch,  \* self._err_fetch, "None" or the exception stored
    chunks,     \* every chunk handed to putb so far
    rets,       \* what each putb call returned or raised
    last,       \* the latest call: the object before it (pre) and after its
                \* retry (mid), and whether evt_fetch was set before it (evt)
    cli,        \* the BlueBerryClient and the coroutine that runs on it
    dfu,        \* a DfuDevice and its send_init_packet / send_firmware call
    lock,       \* the passcode state of a device and the _unlock /
                \* set_password call made on it
    conf,       \* a config_write call and the sensor mask characteristic
    addr,       \* a BleAddress and the addresses derived from it
    adp,        \* an Adapter and its scan call
    ntf         \* a _GattCharacteristicNotifications object and its reads

devVars == <<dfu, lock, conf, addr, adp, ntf>>

vars == <<stream, bbd, num, evt_fetch, err_fetch, chunks, rets, last, cli,
          dfu, lock, conf, addr, adp, ntf>>

\* an object that the scenario does not construct
Absent == [op |-> "none"]

NoDev ==
    /\ dfu = Absent
    /\ lock = Absent
    /\ conf = Absent
    /\ addr = Absent
    /\ adp = Absent
    /\ ntf = Absent

\* The client while a fetch waits with notifications on.  op is the
\* coroutine ("fetch" or "cmd"), pc the await it stands at, connected is
\* self._bc.is_connected, notify whether notifications of the
\* characteristic reach the handler, stop_calls the stop_notify calls made,
\* seen_connected what the coroutine read at its is_connected test,
\* warned the "Unexpected disconnect callback" warnings logged, result how
\* the coroutine ended ("None" while it runs, "returned", or the
\* exception raised), disconnected_at the pc at which the device
\* disconnected; evt_cmd, rxdata, rxsize, opcode and timed_out belong to
\* _cmd, as do started (start_notify of the response characteristic has
\* returned) and written (the request has been written).
InitCli ==
    [op |-> "fetch", pc |-> "wait", connected |-> TRUE, notify |-> TRUE,
     stop_calls |-> 0, seen_connected |-> "None", warned |-> 0,
     result |-> "None", disconnected_at |-> "None",
     evt_cmd |-> FALSE, rxdata |-> <<>>, rxsize |-> 0, opcode |-> 0,
     timed_out |-> FALSE, started |-> FALSE, written |-> FALSE]

RECURSIVE SeqsUpTo(_)
SeqsUpTo(n) ==
    IF n = 0 THEN {<<>>}
    ELSE LET S == SeqsUpTo(n - 1) IN
         S \cup {Append(s, b) : s \in {x \in S : Len(x) = n - 1}, b \in Byte}

\* ---- the device side of the wire format: [1 length byte][payload], the
\* payload holding the fields of a record in schema order

HasKey(od, k) == k \in Keys(od)
ValOf(od, k) == (CHOOSE e \in od : e[1] = k)[2]

EncodePayload(od) ==
    (IF HasKey(od, "TS") THEN <<TagTimestamp>> ELSE <<>>)
    \o (IF HasKey(od, "p") THEN <<TagPressure>> ELSE <<>>)
    \o (IF HasKey(od, "t") THEN <<TagTemperature, ValOf(od, "t")>> ELSE <<>>)

EncodeFrame(od) == <<Len(EncodePayload(od))>> \o EncodePayload(od)

\* the records a device logs: the timestamp and at least one reading
OrdinaryRecords ==
    {od \in ({{<<"TS", 0>>, <<"p", 0>>}}
             \cup {{<<"TS", 0>>, <<"t", v>>} : v \in Byte}
             \cup {{<<"TS", 0>>, <<"p", 0>>, <<"t", v>>} : v \in Byte}) :
        Len(EncodePayload(od)) \in Byte}

SentinelFrame == EncodeFrame({<<"TS", 0>>})

RECURSIVE EncodeStream(_)
EncodeStream(rs) ==
    IF rs = <<>> THEN <<>> ELSE EncodeFrame(Head(rs)) \o EncodeStream(Tail(rs))

RECURSIVE RecordSeqsUpTo(_)
RecordSeqsUpTo(n) ==
    IF n = 0 THEN {<<>>}
    ELSE LET S == RecordSeqsUpTo(n - 1) IN
         S \cup {Append(rs, od) : rs \in {x \in S : Len(x) = n - 1},
                                  od \in OrdinaryRecords}

\* F1..Fn of a well-formed stream of at most MaxValidLen bytes
RecordSeqs ==
    {rs \in RecordSeqsUpTo(MaxValidLen \div 3) :
        Len(EncodeStream(rs)) + Len(SentinelFrame) <= MaxValidLen}

ValidStreams == {EncodeStream(rs) \o SentinelFrame : rs \in RecordSeqs}

InitCommon ==
    /\ bbd = InitBbd
    /\ evt_fetch = FALSE
    /\ err_fetch = "None"
    /\ chunks = <<>>
    /\ rets = <<>>
    /\ last = [pre |-> InitBbd, mid |-> InitBbd, evt |-> FALSE]
    /\ cli = InitCli
    /\ NoDev

Init ==
    /\ stream \in SeqsUpTo(MaxStream)
    /\ num = None
    /\ InitCommon

\* a fetch over a well-formed stream, with or without an entry limit
InitFetch ==
    /\ stream \in ValidStreams
    /\ num \in {None} \cup (1..MaxNum)
    /\ InitCommon

NEmpty == Cardinality({i \in 1..Len(chunks) : chunks[i] = <<>>})

\* response_handler(sender, data) with data the next k bytes delivered
ResponseHandler(k) ==
    \E data \in {Take(stream, k)} :
    \E r \in {Putb(bbd, data)} :
    \E raised \in {r.res \notin {"True", "False"}} :
    LET done == \/ raised
                \/ r.res = "True"
                \/ (num # None /\ num # 0 /\ r.s.msg_count >= num)
    IN  /\ cli.op = "fetch"
        /\ cli.notify
        /\ k = 0 => NEmpty < MaxEmpty
        /\ stream' = Drop(stream, k)
        /\ bbd' = r.s
        /\ err_fetch' = IF raised THEN r.res ELSE err_fetch
        /\ evt_fetch' = (evt_fetch \/ done)
        /\ chunks' = Append(chunks, data)
        /\ rets' = Append(rets, r.res)
        /\ last' = [pre |-> bbd, mid |-> r.mid, evt |-> evt_fetch]
        /\ UNCHANGED <<num, cli, devVars>>

Next == \E k \in 0..Len(stream) : ResponseHandler(k)

Spec == Init /\ [][Next]_vars

SpecFetch == InitFetch /\ [][Next]_vars

\* what the transport delivers when it cuts the byte string v into packets
\* and hands over two adjacent packets in swapped order: the bytes in
\* delivery order
SwappedDeliveries(v) ==
    {SubSeq(v, 1, i) \o SubSeq(v, j + 1, k) \o SubSeq(v, i + 1, j) \o SubSeq(v, k + 1, Len(v)) :
        <<i, j, k>> \in {c \in (0..Len(v)) \X (0..Len(v)) \X (0..Len(v)) :
                            c[1] < c[2] /\ c[2] < c[3]}}

\* a fetch over a well-formed stream of which two adjacent packets arrive
\* in swapped order
InitSwap ==
    /\ stream \in UNION {SwappedDeliveries(v) : v \in {x \in ValidStreams : Len(x) <= MaxSwapLen}}
    /\ num = None
    /\ InitCommon

SpecSwap == InitSwap /\ [][Next]_vars

\* a session whose buffer is close to capacity.  An empty chunk fed to a new
\* session stays buffered: getc finds no byte in the oldest packet, putb
\* returns False and nothing else changes; so does every chunk after it.
\* Stalled(n) is the object after n empty chunks; InitFull takes the last of
\* these putb calls as a step of the model.
Stalled(n) == [InitBbd EXCEPT !.q = [i \in 1..n |-> <<>>]]

InitFull ==
    /\ stream \in SeqsUpTo(MaxFullStream)
    /\ num = None
    /\ evt_fetch = FALSE
    /\ err_fetch = "None"
    /\ \E n \in (PktBufMaxLen - MaxRoom)..PktBufMaxLen :
       \E r \in {Putb(Stalled(n - 1), <<>>)} :
          /\ r.res = "False"
          /\ r.s = Stalled(n)
          /\ bbd = r.s
          /\ chunks = [i \in 1..n |-> <<>>]
          /\ rets = [i \in 1..n |-> "False"]
          /\ last = [pre |-> Stalled(n - 1), mid |-> r.mid, evt |-> FALSE]
    /\ cli = InitCli
    /\ NoDev

SpecFull == InitFull /\ [][Next]_vars

\* a session whose history ring is close to capacity: putb has been called
\* n times with the frame of one and the same ordinary record, each call
\* returning False; FeedAll is the object after these calls
RECURSIVE FeedAll(_, _, _)
FeedAll(s, cs, i) ==
    IF i > Len(cs) THEN s
    ELSE LET r == Putb(s, cs[i]) IN
         IF r.res = "False" THEN FeedAll(r.s, cs, i + 1) ELSE r.s

LoggedFrame == EncodeFrame({<<"TS", 0>>, <<"p", 0>>})

InitHist ==
    /\ stream \in SeqsUpTo(MaxFullStream)
    /\ num = None
    /\ evt_fetch = FALSE
    /\ err_fetch = "None"
    /\ \E n \in (msg_hist_len - MaxRoom)..(msg_hist_len + 1) :
       \E pre \in {FeedAll(InitBbd, [i \in 1..(n - 1) |-> LoggedFrame], 1)} :
       \E r \in {Putb(pre, LoggedFrame)} :
          /\ r.res = "False"
          /\ r.s.msg_count = n
          /\ bbd = r.s
          /\ chunks = [i \in 1..n |-> LoggedFrame]
          /\ rets = [i \in 1..n |-> "False"]
          /\ last = [pre |-> pre, mid |-> r.mid, evt |-> FALSE]
    /\ cli = InitCli
    /\ NoDev

SpecHist == InitHist /\ [][Next]_vars

\* a session whose schema has a field that _PBNAME_TO_FLD lacks: the
\* program and the schema module it imports do not match
MismatchedBbd == [InitBbd EXCEPT !.pb_fields = @ \cup {"unknown"}]

InitSchema ==
    /\ stream \in SeqsUpTo(MaxStream)
    /\ num = None
    /\ bbd = MismatchedBbd
    /\ evt_fetch = FALSE
    /\ err_fetch = "None"
    /\ chunks = <<>>
    /\ rets = <<>>
    /\ last = [pre |-> MismatchedBbd, mid |-> MismatchedBbd, evt |-> FALSE]
    /\ cli = InitCli
    /\ NoDev

SpecSchema == InitSchema /\ [][Next]_vars

\* ------------------------------------------- the coroutines of the client
\* fetch (lines 350-366) and _cmd (lines 156-182) as the event loop runs
\* them: a step runs from one await to the next; handlers and the
\* disconnect callback run in between.  start_notify, write_gatt_char and
\* stop_notify are taken to return normally.

\* if self._err_fetch: raise self._err_fetch
FetchResult_Swallowed(err) == "returned"

FetchResult(err) == IF err # "None" THEN err ELSE "returned"

\* await self._bc.start_notify(uuid_, response_handler)
StartNotify ==
    /\ cli.op = "fetch"
    /\ cli.pc = "start"
    /\ cli' = [cli EXCEPT !.pc = "wait", !.notify = cli.connected]
    /\ UNCHANGED <<stream, bbd, num, evt_fetch, err_fetch, chunks, rets, last, devVars>>

\* await self._evt_fetch.wait(None) returns; is_connected is tested and
\* stop_notify called, or the warning logged and the result given
FetchWake ==
    /\ cli.op = "fetch"
    /\ cli.pc = "wait"
    /\ evt_fetch
    /\ cli' = IF cli.connected
              THEN [cli EXCEPT !.pc = "stop", !.seen_connected = "True",
                               !.stop_calls = @ + 1]
              ELSE [cli EXCEPT !.pc = "end", !.seen_connected = "False",
                               !.result = FetchResult(err_fetch)]
    /\ UNCHANGED <<stream, bbd, num, evt_fetch, err_fetch, chunks, rets, last, devVars>>

\* await self._bc.stop_notify(uuid_) returns; the result is given
StopNotifyDone ==
    /\ cli.op = "fetch"
    /\ cli.pc = "stop"
    /\ cli' = [cli EXCEPT !.pc = "end", !.notify = FALSE,
                          !.result = FetchResult(err_fetch)]
    /\ UNCHANGED <<stream, bbd, num, evt_fetch, err_fetch, chunks, rets, last, devVars>>

\* the callback as a bug would have it: the events are left alone
OnDisconnect_NoEvent ==
    /\ cli.connected
    /\ cli.pc # "end"
    /\ cli' = [cli EXCEPT !.connected = FALSE, !.notify = FALSE,
                          !.disconnected_at = cli.pc]
    /\ UNCHANGED <<stream, bbd, num, evt_fetch, err_fetch, chunks, rets, last, devVars>>

\* _on_disconnect(client) with client the BleakClient of this object, as
\* the device disconnects
OnDisconnect ==
    /\ cli.connected
    /\ cli.pc # "end"
    /\ cli' = [cli EXCEPT !.connected = FALSE, !.notify = FALSE,
                          !.evt_cmd = TRUE, !.disconnected_at = cli.pc]
    /\ evt_fetch' = TRUE
    /\ UNCHANGED <<stream, bbd, num, err_fetch, chunks, rets, last, devVars>>

\* _on_disconnect(client) with another client: a warning, nothing else
OnDisconnectOther ==
    /\ cli.pc # "end"
    /\ cli.warned < MaxWarned
    /\ cli' = [cli EXCEPT !.warned = @ + 1]
    /\ UNCHANGED <<stream, bbd, num, evt_fetch, err_fetch, chunks, rets, last, devVars>>

\* txdata[0] | 0x80
ResponseId(opcode) == IF (opcode \div 128) % 2 = 1 THEN opcode ELSE opcode + 128

\* await self._bc.start_notify(rxuuid, response_handler) of _cmd returns
CmdStart ==
    /\ cli.op = "cmd"
    /\ cli.pc = "cmd_start"
    /\ cli' = [cli EXCEPT !.pc = "cmd_write", !.notify = cli.connected,
                          !.started = TRUE]
    /\ UNCHANGED <<stream, bbd, num, evt_fetch, err_fetch, chunks, rets, last, devVars>>

\* await self._bc.write_gatt_char(txuuid, txdata, response=True) returns
CmdWrite ==
    /\ cli.op = "cmd"
    /\ cli.pc = "cmd_write"
    /\ cli' = [cli EXCEPT !.pc = "cmd_wait", !.written = TRUE]
    /\ UNCHANGED <<stream, bbd, num, evt_fetch, err_fetch, chunks, rets, last, devVars>>

\* response_handler of _cmd with data the next k bytes delivered
CmdResponseHandler(k) ==
    /\ cli.op = "cmd"
    /\ cli.notify
    /\ stream' = Drop(stream, k)
    /\ cli' = [cli EXCEPT !.rxdata = @ \o Take(stream, k), !.evt_cmd = TRUE]
    /\ UNCHANGED <<bbd, num, evt_fetch, err_fetch, chunks, rets, last, devVars>>

\* await self._evt_cmd.wait(6) returns, True with the event set and False
\* after 6 seconds without it; is_connected is tested and stop_notify
\* called, or the warning logged
CmdWake ==
    /\ cli.op = "cmd"
    /\ cli.pc = "cmd_wait"
    /\ cli' = IF cli.connected
              THEN [cli EXCEPT !.pc = "cmd_stop", !.seen_connected = "True",
                               !.stop_calls = @ + 1, !.timed_out = ~cli.evt_cmd]
              ELSE [cli EXCEPT !.pc = "cmd_sleep", !.seen_connected = "False",
                               !.timed_out = ~cli.evt_cmd]
    /\ UNCHANGED <<stream, bbd, num, evt_fetch, err_fetch, chunks, rets, last, devVars>>

\* await self._bc.stop_notify(rxuuid) returns
CmdStopDone ==
    /\ cli.op = "cmd"
    /\ cli.pc = "cmd_stop"
    /\ cli' = [cli EXCEPT !.pc = "cmd_sleep", !.notify = FALSE]
    /\ UNCHANGED <<stream, bbd, num, evt_fetch, err_fetch, chunks, rets, last, devVars>>

\* the tests as a bug would have them: the length is not asserted
CmdResult_NoAssert(rxdata, rxsize, opcode) ==
    IF rxdata # <<>> /\ rxdata[1] # ResponseId(opcode) THEN "RuntimeError"
    ELSE "returned"

\* the assert and the response id test of _cmd
CmdResult(rxdata, rxsize, opcode) ==
    IF Len(rxdata) # rxsize THEN "AssertionError"
    ELSE IF rxsize # 0 /\ rxdata[1] # ResponseId(opcode) THEN "RuntimeError"
    ELSE "returned"

\* await asyncio.sleep(2) returns; the response is tested and returned
CmdSleepDone ==
    /\ cli.op = "cmd"
    /\ cli.pc = "cmd_sleep"
    /\ cli' = [cli EXCEPT !.pc = "end",
                          !.result = CmdResult(cli.rxdata, cli.rxsize, cli.opcode)]
    /\ UNCHANGED <<stream, bbd, num, evt_fetch, err_fetch, chunks, rets, last, devVars>>

\* a fetch from the point where the event is cleared (line 332), over any
\* byte stream, with or without an entry limit
InitClientFetch ==
    /\ stream \in SeqsUpTo(MaxClientStream)
    /\ num \in {None} \cup (1..MaxNum)
    /\ cli = [InitCli EXCEPT !.pc = "start", !.notify = FALSE]

\* a command with a response of rxsize bytes from the point where the event
\* is cleared (line 156); the device answers with any bytes
CmdOpcode == 3
CmdBytes == {0, CmdOpcode, CmdOpcode + 128}

RECURSIVE CmdSeqsUpTo(_)
CmdSeqsUpTo(n) ==
    IF n = 0 THEN {<<>>}
    ELSE LET S == CmdSeqsUpTo(n - 1) IN
         S \cup {Append(s, b) : s \in {x \in S : Len(x) = n - 1}, b \in CmdBytes}

InitClientCmd ==
    /\ stream \in CmdSeqsUpTo(MaxRxSize + 1)
    /\ num = None
    /\ \E n \in 1..MaxRxSize :
          cli = [InitCli EXCEPT !.op = "cmd", !.pc = "cmd_start", !.notify = FALSE,
                                !.rxsize = n, !.opcode = CmdOpcode]

InitClient ==
    /\ bbd = InitBbd
    /\ evt_fetch = FALSE
    /\ err_fetch = "None"
    /\ chunks = <<>>
    /\ rets = <<>>
    /\ last = [pre |-> InitBbd, mid |-> InitBbd, evt |-> FALSE]
    /\ (InitClientFetch \/ InitClientCmd)
    /\ NoDev

NextClient ==
    \/ \E k \in 0..Len(stream) : ResponseHandler(k)
    \/ \E k \in 0..Len(stream) : CmdResponseHandler(k)
    \/ StartNotify
    \/ FetchWake
    \/ StopNotifyDone
    \/ OnDisconnect
    \/ OnDisconnectOther
    \/ CmdStart
    \/ CmdWrite
    \/ CmdWake
    \/ CmdStopDone
    \/ CmdSleepDone

SpecClient == InitClient /\ [][NextClient]_vars

\* the event loop resumes a coroutine whose await is over: start_notify,
\* stop_notify and sleep return, wait returns once the event is set and
\* wait(6) at the latest after 6 seconds
SpecClientLive ==
    /\ SpecClient
    /\ WF_vars(StartNotify) /\ WF_vars(FetchWake) /\ WF_vars(StopNotifyDone)
    /\ WF_vars(CmdStart) /\ WF_vars(CmdWrite) /\ WF_vars(CmdWake) /\ WF_vars(CmdStopDone)
    /\ WF_vars(CmdSleepDone)

\* ------------------------------------------------------------ DfuDevice
\* send_init_packet and send_firmware (src/bblogger/dfu.py).  The device is
\* the environment: what a control point command answers and whether the
\* CRC and offset read back after streaming match are its choice.

RETRIES_NUMBER == 3

\* cp_cmd returns the unpacked response or raises (a timeout, a result code
\* other than success): none of these is caught by the two coroutines
CpOutcomes == {"ok", "OperationError"}
\* __stream_data: the packets are written, then _validate_crc compares the
\* CRC and offset of the device with the ones computed
StreamOutcomes == {"ok", "ValidationException", "OperationError"}

DfuLog(d, ev) == [d EXCEPT !.log = Append(@, <<ev, d.i>>)]
DfuRaise(d, exc) == [d EXCEPT !.pc = "end", !.result = exc]
DfuReturn(d) == [d EXCEPT !.pc = "end", !.result = "returned"]

\* for i in range(response["offset"], len(firmware), response["max_size"])
\* from the object at offset i on; the init packet is one object
DfuLoop(d, i) ==
    IF d.op = "firmware" /\ i >= d.len THEN DfuReturn([d EXCEPT !.i = i])
    ELSE [d EXCEPT !.pc = "create", !.i = i, !.r = 0]

\* the break that ends an attempt (lines 445 and 503): it stands after the
\* try statement, so it is taken after a successful execute and after a
\* caught ValidationException alike, and the else clause of the for loop
\* (NordicSemiException) is never entered
DfuBreak(d) ==
    IF d.op = "firmware" THEN DfuLoop(d, d.i + d.max_size) ELSE DfuReturn(d)

\* response = await cp_cmd(OBJ_SELECT), followed by try_to_recover up to its
\* first await
DfuSelected(d) ==
    LET remainder == d.offset % d.max_size IN
    IF d.op = "init" THEN
        IF d.len > d.max_size THEN DfuRaise(d, "Exception")
        ELSE IF d.offset = 0 \/ d.offset > d.len THEN DfuLoop(d, 0)
        ELSE IF ~d.crc_ok THEN DfuLoop(d, 0)
        ELSE IF d.len > d.offset THEN [d EXCEPT !.pc = "recover_stream"]
        ELSE [d EXCEPT !.pc = "recover_execute"]
    ELSE
        IF d.offset = 0 THEN DfuLoop([d EXCEPT !.resume = 0], 0)
        ELSE IF ~d.crc_ok THEN
            LET o == d.offset - (IF remainder # 0 THEN remainder ELSE d.max_size)
            IN DfuLoop([d EXCEPT !.offset = o, !.resume = o], o)
        ELSE IF remainder # 0 /\ d.offset # d.len THEN
            [d EXCEPT !.pc = "recover_stream"]
        ELSE [d EXCEPT !.pc = "recover_execute"]

DfuSelect ==
    /\ dfu.op \in {"init", "firmware"}
    /\ dfu.pc = "select"
    /\ \E out \in CpOutcomes :
          dfu' = IF out = "ok" THEN DfuSelected(dfu) ELSE DfuRaise(dfu, out)
    /\ UNCHANGED <<stream, bbd, num, evt_fetch, err_fetch, chunks, rets, last, cli,
                   lock, conf, addr, adp, ntf>>

\* len(to_send) of send_firmware.try_to_recover
RestOfPage(d) ==
    LET room == d.max_size - (d.offset % d.max_size)
        left == d.len - d.offset
    IN IF room < left THEN room ELSE left

DfuRecoverStream ==
    /\ dfu.op \in {"init", "firmware"}
    /\ dfu.pc = "recover_stream"
    /\ \E out \in StreamOutcomes :
          dfu' =
            IF out = "OperationError" THEN DfuRaise(dfu, out)
            ELSE IF dfu.op = "init" THEN
                IF out = "ok" THEN [dfu EXCEPT !.pc = "recover_execute"]
                ELSE DfuLoop(dfu, 0)
            ELSE
                IF out = "ok" THEN
                    [dfu EXCEPT !.pc = "recover_execute",
                                !.offset = @ + RestOfPage(dfu)]
                ELSE LET o == dfu.offset - (dfu.offset % dfu.max_size)
                     IN DfuLoop([dfu EXCEPT !.offset = o, !.resume = o], o)
    /\ UNCHANGED <<stream, bbd, num, evt_fetch, err_fetch, chunks, rets, last, cli,
                   lock, conf, addr, adp, ntf>>

DfuRecoverExecute ==
    /\ dfu.op \in {"init", "firmware"}
    /\ dfu.pc = "recover_execute"
    /\ \E out \in CpOutcomes :
          dfu' =
            IF out # "ok" THEN DfuRaise(dfu, out)
            ELSE IF dfu.op = "init" THEN
                DfuReturn([dfu EXCEPT !.recovered = TRUE])
            ELSE DfuLoop([dfu EXCEPT !.resume = dfu.offset], dfu.offset)
    /\ UNCHANGED <<stream, bbd, num, evt_fetch, err_fetch, chunks, rets, last, cli,
                   lock, conf, addr, adp, ntf>>

\* await cp_cmd(OBJ_CREATE, size=len(data)), first statement of an attempt
DfuCreate ==
    /\ dfu.op \in {"init", "firmware"}
    /\ dfu.pc = "create"
    /\ \E out \in CpOutcomes :
          dfu' = IF out = "ok"
                 THEN [DfuLog(dfu, "create") EXCEPT !.pc = "stream"]
                 ELSE DfuRaise(dfu, out)
    /\ UNCHANGED <<stream, bbd, num, evt_fetch, err_fetch, chunks, rets, last, cli,
                   lock, conf, addr, adp, ntf>>

\* await __stream_data(data): a ValidationException is caught by the except
\* clause of the attempt, after which the break is taken
DfuStream ==
    /\ dfu.op \in {"init", "firmware"}
    /\ dfu.pc = "stream"
    /\ \E out \in StreamOutcomes :
          dfu' = IF out = "ok"
                 THEN [DfuLog(dfu, "valid") EXCEPT !.pc = "execute"]
                 ELSE IF out = "ValidationException"
                 THEN DfuBreak(DfuLog(dfu, "invalid"))
                 ELSE DfuRaise(dfu, out)
    /\ UNCHANGED <<stream, bbd, num, evt_fetch, err_fetch, chunks, rets, last, cli,
                   lock, conf, addr, adp, ntf>>

\* await cp_cmd(OBJ_EXECUTE), last statement of an attempt, then the break
DfuExecute ==
    /\ dfu.op \in {"init", "firmware"}
    /\ dfu.pc = "execute"
    /\ \E out \in CpOutcomes :
          dfu' = IF out = "ok" THEN DfuBreak(DfuLog(dfu, "execute"))
                 ELSE DfuRaise(dfu, out)
    /\ UNCHANGED <<stream, bbd, num, evt_fetch, err_fetch, chunks, rets, last, cli,
                   lock, conf, addr, adp, ntf>>

\* a call of send_init_packet or send_firmware with len bytes, on a device
\* whose select response reports max_size, an offset and a CRC that matches
\* the CRC of the first offset bytes or not
InitDfuDevice ==
    \E op \in {"init", "firmware"}, n \in 0..MaxFwLen, m \in 1..MaxObjSize,
       o \in 0..(MaxFwLen + 1), c \in BOOLEAN :
        /\ op = "firmware" => o <= n
        /\ dfu = [op |-> op, pc |-> "select", len |-> n, max_size |-> m,
                  offset |-> o, crc_ok |-> c, resume |-> o, i |-> 0, r |-> 0,
                  recovered |-> FALSE, log |-> <<>>, result |-> "None"]

InitDfu ==
    /\ stream = <<>>
    /\ num = None
    /\ bbd = InitBbd
    /\ evt_fetch = FALSE
    /\ err_fetch = "None"
    /\ chunks = <<>>
    /\ rets = <<>>
    /\ last = [pre |-> InitBbd, mid |-> InitBbd, evt |-> FALSE]
    /\ cli = InitCli
    /\ InitDfuDevice
    /\ lock = Absent
    /\ conf = Absent
    /\ addr = Absent
    /\ adp = Absent
    /\ ntf = Absent

NextDfu ==
    \/ DfuSelect
    \/ DfuRecoverStream
    \/ DfuRecoverExecute
    \/ DfuCreate
    \/ DfuStream
    \/ DfuExecute

SpecDfu == InitDfu /\ [][NextDfu]_vars

\* ---------------------------------------------- passcode: connect, set_password
\* BlueBerryClient.connect / _unlock and set_password (src/bblogger/ble.py
\* lines 89-127 and 184-211).  lock.sent lists what the call wrote to the
\* device, in order.

\* PASSCODE_STATUS (defs.py lines 47-55)
PASSCODE_INIT == 0
PASSCODE_UNVERIFIED == 1
PASSCODE_VERIFIED == 2
PASSCODE_DISABLED == 3

\* the second byte of the GET_PASSCODE_STATE response: a status or any
\* other value
StatusBytes == PASSCODE_INIT..(PASSCODE_DISABLED + 1)

\* the password argument: None, or bytes or a str of some length
NoPassword == [kind |-> "None", len |-> 0]
Passwords ==
    {NoPassword} \cup [kind : {"bytes", "str"}, len : {0, 7, 8}]

\* if password:
Truthy(pw) == pw.kind # "None" /\ pw.len > 0

\* _unlock after rc was read: the await the branch taken leads to
UnlockBranch_PasscodeAlways(rc, pw) ==
    IF pw = NoPassword /\ rc = PASSCODE_UNVERIFIED THEN "disconnect"
    ELSE IF pw = NoPassword THEN "return"
    ELSE "pw_write"

UnlockBranch(rc, pw) ==
    IF rc = PASSCODE_INIT THEN
        IF Truthy(pw) THEN "pw_write" ELSE "log_write"
    ELSE IF rc = PASSCODE_UNVERIFIED THEN
        IF pw = NoPassword THEN "disconnect" ELSE "pw_write"
    ELSE "return"

\* set_password after rc was read
SetPasswordBranch(rc) ==
    IF rc = PASSCODE_INIT THEN "pw_write" ELSE "RuntimeError"

LockEnd(l, res) == [l EXCEPT !.pc = "end", !.result = res]

\* connect: await self._bc.connect() returns; set_password: the test of
\* the argument
LockEnter ==
    /\ lock.op \in {"connect", "set_password"}
    /\ lock.pc = "enter"
    /\ lock' = IF lock.op = "connect"
               THEN [lock EXCEPT !.pc = "status", !.connected = TRUE]
               ELSE IF lock.password = NoPassword THEN LockEnd(lock, "ValueError")
               ELSE [lock EXCEPT !.pc = "status"]
    /\ UNCHANGED <<stream, bbd, num, evt_fetch, err_fetch, chunks, rets, last, cli,
                   dfu, conf, addr, adp, ntf>>

\* _unlock and set_password from the test of rc to the next await
LockAfterStatus(l, br) ==
    IF br = "return" THEN LockEnd(l, "returned")
    ELSE IF br = "RuntimeError" THEN LockEnd(l, "RuntimeError")
    ELSE [l EXCEPT !.pc = br]

\* rc = await self._pw_status(): the command is written and answered with
\* the status of the device, or _cmd raises
LockStatus ==
    /\ lock.op \in {"connect", "set_password"}
    /\ lock.pc = "status"
    /\ \E ok \in BOOLEAN :
        \E l \in {[lock EXCEPT !.sent = Append(@, "GET_PASSCODE_STATE")]} :
          lock' =
            IF ~ok THEN LockEnd(l, "CmdError")
            ELSE LockAfterStatus([l EXCEPT !.rc = l.status],
                                 IF l.op = "connect"
                                 THEN UnlockBranch(l.status, l.password)
                                 ELSE SetPasswordBranch(l.status))
    /\ UNCHANGED <<stream, bbd, num, evt_fetch, err_fetch, chunks, rets, last, cli,
                   dfu, conf, addr, adp, ntf>>

\* await self._pw_write(password): the assert on the length, extend (which
\* takes bytes, not str) and the SET_PASSCODE command without a response
LockPwWrite ==
    /\ lock.op \in {"connect", "set_password"}
    /\ lock.pc = "pw_write"
    /\ lock' = IF lock.password.len # 8 THEN LockEnd(lock, "AssertionError")
               ELSE IF lock.password.kind = "str" THEN LockEnd(lock, "TypeError")
               ELSE LockEnd([lock EXCEPT !.sent = Append(@, "SET_PASSCODE")],
                            "returned")
    /\ UNCHANGED <<stream, bbd, num, evt_fetch, err_fetch, chunks, rets, last, cli,
                   dfu, conf, addr, adp, ntf>>

\* await self._write_u32(UUIDS.C_CFG_LOG_ENABLE, 0)
LockLogWrite ==
    /\ lock.op = "connect"
    /\ lock.pc = "log_write"
    /\ lock' = LockEnd([lock EXCEPT !.sent = Append(@, "LOG_ENABLE")], "returned")
    /\ UNCHANGED <<stream, bbd, num, evt_fetch, err_fetch, chunks, rets, last, cli,
                   dfu, conf, addr, adp, ntf>>

\* await self._bc.disconnect(); raise ValueError
LockDisconnect ==
    /\ lock.op = "connect"
    /\ lock.pc = "disconnect"
    /\ lock' = LockEnd([lock EXCEPT !.connected = FALSE], "ValueError")
    /\ UNCHANGED <<stream, bbd, num, evt_fetch, err_fetch, chunks, rets, last, cli,
                   dfu, conf, addr, adp, ntf>>

\* connect() of a client constructed with any password, or set_password on
\* a connected client, on a device in any passcode state
InitLockCall ==
    \E op \in {"connect", "set_password"}, st \in StatusBytes, pw \in Passwords :
        lock = [op |-> op, pc |-> "enter", password |-> pw, status |-> st,
                rc |-> None, connected |-> (op = "set_password"),
                sent |-> <<>>, result |-> "None"]

InitLock ==
    /\ stream = <<>>
    /\ num = None
    /\ bbd = InitBbd
    /\ evt_fetch = FALSE
    /\ err_fetch = "None"
    /\ chunks = <<>>
    /\ rets = <<>>
    /\ last = [pre |-> InitBbd, mid |-> InitBbd, evt |-> FALSE]
    /\ cli = InitCli
    /\ InitLockCall
    /\ dfu = Absent
    /\ conf = Absent
    /\ addr = Absent
    /\ adp = Absent
    /\ ntf = Absent

NextLock ==
    \/ LockEnter
    \/ LockStatus
    \/ LockPwWrite
    \/ LockLogWrite
    \/ LockDisconnect

SpecLock == InitLock /\ [][NextLock]_vars

\* ------------------------------------------------------------ config_write
\* BlueBerryClient.config_write (src/bblogger/ble.py lines 248-285) and
\* SENSORS (src/bblogger/defs.py).  Masks are Python ints; a & b, a | b and
\* ~a are computed bit by bit, a negative int standing for its infinite
\* two's complement.

RECURSIVE BitAnd(_, _)
BitAnd(a, b) ==
    IF a = 0 THEN 0 ELSE (a % 2) * (b % 2) + 2 * BitAnd(a \div 2, b \div 2)

RECURSIVE BitOr(_, _)
BitOr(a, b) ==
    IF a = 0 THEN b
    ELSE IF b = 0 THEN a
    ELSE (IF a % 2 = 1 \/ b % 2 = 1 THEN 1 ELSE 0) + 2 * BitOr(a \div 2, b \div 2)

BitNot(a) == 0 - a - 1

\* SENSORS: apiname and enmask of the configurable fields
SensorMask ==
    [pressure |-> 1, humid |-> 2, temp |-> 4, compass |-> 8, accel |-> 16,
     gyro |-> 32, lux |-> 64, uvi |-> 256, batvolt |-> 512]

\* k in SENSORS
IsSensor(k) == k \in DOMAIN SensorMask

\* the keyword arguments followed: four sensors, the two other settings and
\* a name that is no setting at all; each absent, None or a value
ConfKeys == {"pressure", "temp", "uvi", "batvolt", "logging", "interval", "bogus"}
NotPassed == -2     \* the keyword is not among the arguments
ConfValues == {NotPassed, None, 0, 1}
Kwargs == [ConfKeys -> ConfValues]

\* what the sensor mask characteristic of the device holds
OldMasks == {0, 5, 128, 773, 65535}

Passed(kw) == {k \in ConfKeys : kw[k] # NotPassed}

\* the loop over kwargs.items() (lines 253-264), for the keys ks left
RECURSIVE MaskLoop(_, _, _)
MaskLoop(kw, ks, m) ==
    IF ks = {} THEN m
    ELSE LET k == CHOOSE x \in ks : TRUE
             v == kw[k]
         IN MaskLoop(kw, ks \ {k},
                IF v = None THEN m
                ELSE IF IsSensor(k) THEN
                    IF v # 0 THEN [m EXCEPT !.set = BitOr(@, SensorMask[k])]
                    ELSE [m EXCEPT !.clr = BitOr(@, SensorMask[k])]
                ELSE m)

\* the new mask as a bug would have it: nothing is cleared
EnMaskNew_SetOnly(old, set, clr) == BitOr(old, set)

\* enMaskNew = (enMaskOld & ~clrMask) | setMask
EnMaskNew(old, set, clr) == BitOr(BitAnd(old, BitNot(clr)), set)

\* the await the coroutine stands at next, from the statement after pc on
ConfNext(c, after) ==
    IF after < 1 /\ c.kwargs["logging"] \notin {NotPassed, None}
    THEN [c EXCEPT !.pc = "write_logging"]
    ELSE IF after < 2 /\ c.kwargs["interval"] \notin {NotPassed, None}
    THEN [c EXCEPT !.pc = "write_interval"]
    ELSE IF after < 3 /\ (c.setMask # 0 \/ c.clrMask # 0)
    THEN [c EXCEPT !.pc = "read_mask"]
    ELSE [c EXCEPT !.pc = "end", !.result = "returned"]

\* the call up to its first await: the masks are computed
ConfEnter ==
    /\ conf.op = "config_write"
    /\ conf.pc = "enter"
    /\ \E m \in {MaskLoop(conf.kwargs, Passed(conf.kwargs), [set |-> 0, clr |-> 0])} :
          conf' = ConfNext([conf EXCEPT !.setMask = m.set, !.clrMask = m.clr], 0)
    /\ UNCHANGED <<stream, bbd, num, evt_fetch, err_fetch, chunks, rets, last, cli,
                   dfu, lock, addr, adp, ntf>>

\* await self._write_u32(UUIDS.C_CFG_LOG_ENABLE, logging)
ConfWriteLogging ==
    /\ conf.op = "config_write"
    /\ conf.pc = "write_logging"
    /\ conf' = ConfNext([conf EXCEPT !.io = Append(@,
                    <<"write", "C_CFG_LOG_ENABLE", conf.kwargs["logging"]>>)], 1)
    /\ UNCHANGED <<stream, bbd, num, evt_fetch, err_fetch, chunks, rets, last, cli,
                   dfu, lock, addr, adp, ntf>>

\* await self._write_u32(UUIDS.C_CFG_INTERVAL, interval)
ConfWriteInterval ==
    /\ conf.op = "config_write"
    /\ conf.pc = "write_interval"
    /\ conf' = ConfNext([conf EXCEPT !.io = Append(@,
                    <<"write", "C_CFG_INTERVAL", conf.kwargs["interval"]>>)], 2)
    /\ UNCHANGED <<stream, bbd, num, evt_fetch, err_fetch, chunks, rets, last, cli,
                   dfu, lock, addr, adp, ntf>>

\* enMaskOld = await self._read_u32(cuuid)
ConfReadMask ==
    /\ conf.op = "config_write"
    /\ conf.pc = "read_mask"
    /\ conf' = [conf EXCEPT !.pc = "write_mask", !.enMaskOld = conf.dev_mask,
                            !.io = Append(@, <<"read", "C_CFG_SENSOR_ENABLE",
                                               conf.dev_mask>>)]
    /\ UNCHANGED <<stream, bbd, num, evt_fetch, err_fetch, chunks, rets, last, cli,
                   dfu, lock, addr, adp, ntf>>

\* await self._write_u32(cuuid, enMaskNew)
ConfWriteMask ==
    /\ conf.op = "config_write"
    /\ conf.pc = "write_mask"
    /\ \E new \in {EnMaskNew(conf.enMaskOld, conf.setMask, conf.clrMask)} :
          conf' = ConfNext([conf EXCEPT !.dev_mask = new,
                                        !.io = Append(@, <<"write",
                                                  "C_CFG_SENSOR_ENABLE", new>>)], 3)
    /\ UNCHANGED <<stream, bbd, num, evt_fetch, err_fetch, chunks, rets, last, cli,
                   dfu, lock, addr, adp, ntf>>

InitConfCall ==
    \E kw \in Kwargs, old \in OldMasks :
        conf = [op |-> "config_write", pc |-> "enter", kwargs |-> kw,
                setMask |-> 0, clrMask |-> 0, dev_mask |-> old,
                old_mask |-> old, enMaskOld |-> None, io |-> <<>>,
                result |-> "None"]

InitConf ==
    /\ stream = <<>>
    /\ num = None
    /\ bbd = InitBbd
    /\ evt_fetch = FALSE
    /\ err_fetch = None
    /\ chunks = <<>>
    /\ rets = <<>>
    /\ last = [pre |-> InitBbd, mid |-> InitBbd, evt |-> FALSE]
    /\ cli = InitCli
    /\ InitConfCall
    /\ dfu = Absent
    /\ lock = Absent
    /\ addr = Absent
    /\ adp = Absent
    /\ ntf = Absent

NextConf ==
    \/ ConfEnter
    \/ ConfWriteLogging
    \/ ConfWriteInterval
    \/ ConfReadMask
    \/ ConfWriteMask

SpecConf == InitConf /\ [][NextConf]_vars

\* ------------------------------------------------------------ BleAddress
\* BleAddress (src/bblogger/dfu.py lines 108-178).  self._int is a Python
\* int of up to 48 bits; it is held as two limbs of 24 bits, <<hi, lo>>
\* standing for hi * 2^24 + lo.

Limb == 16777216    \* 2^24

\* int.from_bytes(ba, byteorder="big") of the six bytes of the string
FromBytes(ba) ==
    <<ba[1] * 65536 + ba[2] * 256 + ba[3], ba[4] * 65536 + ba[5] * 256 + ba[6]>>

\* int.to_bytes(self._int, length=6, byteorder="big") in __str__
ToBytes(x) ==
    <<x[1] \div 65536, (x[1] \div 256) % 256, x[1] % 256,
      x[2] \div 65536, (x[2] \div 256) % 256, x[2] % 256>>

\* the sum as a bug would have it: no mask
AddN_NoMask(x, n) ==
    LET lo == x[2] + n IN
    IF lo < 0 THEN IF x[1] = 0 THEN <<-1, Limb - 1>> ELSE <<x[1] - 1, Limb - 1>>
    ELSE IF lo >= Limb THEN <<x[1] + 1, 0>>
    ELSE <<x[1], lo>>

\* BleAddress(x, n) for n # 0: (self._int + n) & 0xFFFFFFFFFFFF, with n one
\* of 1 and -1
AddN(x, n) ==
    LET lo == x[2] + n
        carry == lo \div Limb
    IN <<(x[1] + carry) % Limb, lo % Limb>>

\* the bytes an address string is made of in the model
AddrBytes == {0, 1, 255}
Addresses == [1..6 -> AddrBytes]

\* dfu_addr() called on the latest address
DfuAddr ==
    /\ addr.op = "address"
    /\ Len(addr.calls) < MaxHops
    /\ addr' = [addr EXCEPT !.cur = AddN(@, 1), !.calls = Append(@, "dfu_addr")]
    /\ UNCHANGED <<stream, bbd, num, evt_fetch, err_fetch, chunks, rets, last, cli,
                   dfu, lock, conf, adp, ntf>>

\* app_addr() called on the latest address
AppAddr ==
    /\ addr.op = "address"
    /\ Len(addr.calls) < MaxHops
    /\ addr' = [addr EXCEPT !.cur = AddN(@, -1), !.calls = Append(@, "app_addr")]
    /\ UNCHANGED <<stream, bbd, num, evt_fetch, err_fetch, chunks, rets, last, cli,
                   dfu, lock, conf, adp, ntf>>

\* BleAddress(s) for an address string s of six bytes
InitAddress ==
    \E ba \in Addresses :
        addr = [op |-> "address", start |-> ba, cur |-> FromBytes(ba),
                calls |-> <<>>]

InitAddr ==
    /\ stream = <<>>
    /\ num = None
    /\ bbd = InitBbd
    /\ evt_fetch = FALSE
    /\ err_fetch = "None"
    /\ chunks = <<>>
    /\ rets = <<>>
    /\ last = [pre |-> InitBbd, mid |-> InitBbd, evt |-> FALSE]
    /\ cli = InitCli
    /\ InitAddress
    /\ dfu = Absent
    /\ lock = Absent
    /\ conf = Absent
    /\ adp = Absent
    /\ ntf = Absent

NextAddr ==
    \/ DfuAddr
    \/ AppAddr

SpecAddr == InitAddr /\ [][NextAddr]_vars

\* ------------------------------------------------------------ Adapter.scan
\* Adapter.scan, _startDiscovery, _stopDiscovery and _onPropertiesChanged
\* (src/bblogger/bluetoothle/ble_linux.py lines 187-316).  scan runs in the
\* calling thread, the PropertiesChanged signal of the adapter is handled
\* in another thread.  adp.issued lists the D-Bus calls made, in order.

maxAttempts == 6

AdpEnd(a, res) == [a EXCEPT !.pc = "end", !.result = res]

\* the finally clause is entered with the exception exc pending ("None"
\* when the try block was left by break)
AdpFinally(a, exc) == [a EXCEPT !.pc = "stop", !.pending = exc]

\* scan up to the wait of _startDiscovery: the asserts, clear() and the
\* StartDiscovery call
ScanStart ==
    /\ adp.op = "scan"
    /\ adp.pc = "enter"
    /\ adp' = IF ~(adp.evtStartDiscovery /\ adp.evtStopDiscovery)
              THEN AdpFinally(adp, "AssertionError")
              ELSE [adp EXCEPT !.pc = "wait_start", !.evtStartDiscovery = FALSE,
                               !.issued = Append(@, "StartDiscovery"),
                               !.unconfirmed = @ \cup {1}]
    /\ UNCHANGED <<stream, bbd, num, evt_fetch, err_fetch, chunks, rets, last, cli,
                   dfu, lock, conf, addr, ntf>>

\* _onPropertiesChanged with 'Discovering' changed to d, as the adapter
\* confirms a StartDiscovery (d = 1) or a StopDiscovery (d = 0)
OnPropertiesChanged(d) ==
    /\ adp.op = "scan"
    /\ adp.pc # "end"
    /\ d \in adp.unconfirmed
    /\ adp' = IF d = 1
              THEN [adp EXCEPT !.evtStartDiscovery = TRUE, !.unconfirmed = @ \ {d}]
              ELSE [adp EXCEPT !.evtStopDiscovery = TRUE, !.unconfirmed = @ \ {d}]
    /\ UNCHANGED <<stream, bbd, num, evt_fetch, err_fetch, chunks, rets, last, cli,
                   dfu, lock, conf, addr, ntf>>

\* self._evtStartDiscovery.wait(timeout) returns: True with the event set,
\* False after 10 seconds without it, which raises RuntimeError
ScanStartWaitDone ==
    /\ adp.op = "scan"
    /\ adp.pc = "wait_start"
    /\ adp' = IF adp.evtStartDiscovery THEN [adp EXCEPT !.pc = "poll"]
              ELSE AdpFinally(adp, "RuntimeError")
    /\ UNCHANGED <<stream, bbd, num, evt_fetch, err_fetch, chunks, rets, last, cli,
                   dfu, lock, conf, addr, ntf>>

\* one round of the while loop (lines 229-254): the devices known are
\* filtered (match: one passes the filter), the timeout is tested
\* (expired), the round is counted
ScanPoll ==
    /\ adp.op = "scan"
    /\ adp.pc = "poll"
    /\ \E match \in {FALSE, adp.has_filter}, expired \in {FALSE, adp.timeout # 0} :
        \E a \in {[adp EXCEPT !.rounds = @ + 1, !.found = @ \/ match]} :
          adp' = IF expired THEN AdpFinally(a, "None")
                 ELSE IF a.attempts + 1 >= maxAttempts
                 THEN AdpFinally([a EXCEPT !.attempts = @ + 1], "None")
                 ELSE IF a.found
                 THEN AdpFinally([a EXCEPT !.attempts = @ + 1], "None")
                 ELSE [a EXCEPT !.attempts = @ + 1]
    /\ UNCHANGED <<stream, bbd, num, evt_fetch, err_fetch, chunks, rets, last, cli,
                   dfu, lock, conf, addr, ntf>>

\* the asserts of _stopDiscovery (lines 310-311)
StopAsserts(a) == a.evtStartDiscovery /\ a.evtStopDiscovery

\* the finally clause up to the wait of _stopDiscovery
ScanStop ==
    /\ adp.op = "scan"
    /\ adp.pc = "stop"
    /\ adp' = IF ~StopAsserts(adp) THEN AdpEnd(adp, "AssertionError")
              ELSE [adp EXCEPT !.pc = "wait_stop", !.evtStopDiscovery = FALSE,
                               !.issued = Append(@, "StopDiscovery"),
                               !.unconfirmed = @ \cup {0}]
    /\ UNCHANGED <<stream, bbd, num, evt_fetch, err_fetch, chunks, rets, last, cli,
                   dfu, lock, conf, addr, ntf>>

\* self._evtStopDiscovery.wait(timeout) returns; the finally clause ends
\* and scan returns the devices or raises what was pending
ScanStopWaitDone ==
    /\ adp.op = "scan"
    /\ adp.pc = "wait_stop"
    /\ adp' = IF ~adp.evtStopDiscovery THEN AdpEnd(adp, "RuntimeError")
              ELSE IF adp.pending # "None" THEN AdpEnd(adp, adp.pending)
              ELSE AdpEnd(adp, "returned")
    /\ UNCHANGED <<stream, bbd, num, evt_fetch, err_fetch, chunks, rets, last, cli,
                   dfu, lock, conf, addr, ntf>>

\* scan(devfilter, timeout=...) on an adapter as __init__ leaves it (both
\* events set, lines 177-180), with or without a filter and a timeout
InitScan ==
    \E f \in BOOLEAN, t \in {0, 1} :
        adp = [op |-> "scan", pc |-> "enter", has_filter |-> f, timeout |-> t,
               evtStartDiscovery |-> TRUE, evtStopDiscovery |-> TRUE,
               unconfirmed |-> {}, issued |-> <<>>, attempts |-> 0,
               rounds |-> 0, found |-> FALSE, pending |-> "None",
               result |-> "None"]

InitAdp ==
    /\ stream = <<>>
    /\ num = None
    /\ bbd = InitBbd
    /\ evt_fetch = FALSE
    /\ err_fetch = "None"
    /\ chunks = <<>>
    /\ rets = <<>>
    /\ last = [pre |-> InitBbd, mid |-> InitBbd, evt |-> FALSE]
    /\ cli = InitCli
    /\ InitScan
    /\ dfu = Absent
    /\ lock = Absent
    /\ conf = Absent
    /\ addr = Absent
    /\ ntf = Absent

NextAdp ==
    \/ ScanStart
    \/ \E d \in {0, 1} : OnPropertiesChanged(d)
    \/ ScanStartWaitDone
    \/ ScanPoll
    \/ ScanStop
    \/ ScanStopWaitDone

SpecAdp == InitAdp /\ [][NextAdp]_vars

\* ----------------------------------------- _GattCharacteristicNotifications
\* read(len_=n), _getSize, _get and the Value branch of
\* _onPropertiesChanged (src/bblogger/bluetoothle/ble_linux.py lines
\* 377-467).  The signal handler runs in another thread than read.  The
\* device sends the bytes 1, 2, 3, ... so that every byte tells its place
\* in the stream.

\* the bytes from .. to of the stream
Bytes(from, to) == [i \in 1..(to - from + 1) |-> from + i - 1]

\* ba[0:size] and ba[size:]
Slice(ba, from, to) == [i \in 1..(to - from) |-> ba[from + i]]

\* _onPropertiesChanged with a Value of k bytes: self._queue.put(value)
OnValueChanged(k) ==
    /\ ntf.op = "read"
    /\ ntf.sent + k <= MaxNotifBytes
    /\ ntf' = [ntf EXCEPT !.queue = Append(@, Bytes(ntf.sent + 1, ntf.sent + k)),
                          !.sent = @ + k]
    /\ UNCHANGED <<stream, bbd, num, evt_fetch, err_fetch, chunks, rets, last, cli,
                   dfu, lock, conf, addr, adp>>

\* _getSize from the test of the while loop on: the read returns once ba
\* holds size bytes, the surplus kept in self._partial
GetSizeLoop(n) ==
    IF Len(n.ba) < n.size THEN [n EXCEPT !.pc = "get"]
    ELSE [n EXCEPT !.pc = "idle",
                   !.partial = IF Len(n.ba) > n.size
                               THEN Slice(n.ba, n.size, Len(n.ba)) ELSE n.partial,
                   !.results = @ \o Slice(n.ba, 0, n.size),
                   !.returned = @ + 1,
                   !.ba = <<>>]

\* read(len_=size) up to the first self._get: a partial result of the
\* earlier read is taken over
ReadStart(size) ==
    /\ ntf.op = "read"
    /\ ntf.pc = "idle"
    /\ ntf.reads < MaxReads
    /\ ntf' = GetSizeLoop(
                IF ntf.partial # <<>>
                THEN [ntf EXCEPT !.reads = @ + 1, !.size = size,
                                 !.ba = ntf.partial, !.partial = <<>>]
                ELSE [ntf EXCEPT !.reads = @ + 1, !.size = size, !.ba = <<>>])
    /\ UNCHANGED <<stream, bbd, num, evt_fetch, err_fetch, chunks, rets, last, cli,
                   dfu, lock, conf, addr, adp>>

\* self._queue.get(block=True, timeout=timeout) returns a payload, which is
\* added to ba
ReadGet ==
    /\ ntf.op = "read"
    /\ ntf.pc = "get"
    /\ ntf.queue # <<>>
    /\ ntf' = GetSizeLoop([ntf EXCEPT !.ba = @ \o Head(ntf.queue),
                                      !.queue = Tail(@)])
    /\ UNCHANGED <<stream, bbd, num, evt_fetch, err_fetch, chunks, rets, last, cli,
                   dfu, lock, conf, addr, adp>>

\* the queue stays empty for timeout seconds: queue.Empty, raised again as
\* TimeoutError, leaves _getSize and read; the local ba goes with it
ReadTimeout ==
    /\ ntf.op = "read"
    /\ ntf.pc = "get"
    /\ ntf.queue = <<>>
    /\ ntf' = [ntf EXCEPT !.pc = "idle", !.ba = <<>>, !.timeouts = @ + 1,
                          !.dropped = @ \o ntf.ba]
    /\ UNCHANGED <<stream, bbd, num, evt_fetch, err_fetch, chunks, rets, last, cli,
                   dfu, lock, conf, addr, adp>>

\* an enabled notifications object with nothing received (lines 348-358)
InitNotifications ==
    ntf = [op |-> "read", pc |-> "idle", queue |-> <<>>, partial |-> <<>>,
           ba |-> <<>>, size |-> 0, sent |-> 0, results |-> <<>>,
           reads |-> 0, returned |-> 0, timeouts |-> 0, dropped |-> <<>>]

InitNtf ==
    /\ stream = <<>>
    /\ num = None
    /\ bbd = InitBbd
    /\ evt_fetch = FALSE
    /\ err_fetch = "None"
    /\ chunks = <<>>
    /\ rets = <<>>
    /\ last = [pre |-> InitBbd, mid |-> InitBbd, evt |-> FALSE]
    /\ cli = InitCli
    /\ InitNotifications
    /\ dfu = Absent
    /\ lock = Absent
    /\ conf = Absent
    /\ addr = Absent
    /\ adp = Absent

NextNtf ==
    \/ \E k \in 1..MaxPayload : OnValueChanged(k)
    \/ \E size \in 1..MaxReadSize : ReadStart(size)
    \/ ReadGet
    \/ ReadTimeout

SpecNtf == InitNtf /\ [][NextNtf]_vars

\* ================================================================ claims

LastRet == rets[Len(rets)]
Fed == Flatten(chunks)

\* the row _append hands to the output for record od, header flag aside
RowOf(od) == [keys |-> Keys(od), vals |-> {<<e[1], ToUnit(e[1], e[2])>> : e \in od}]
Emitted(out) == [i \in 1..Len(out) |-> [keys |-> out[i].keys, vals |-> out[i].vals]]

\* C1 Framing round-trip: when the non-empty chunks fed so far concatenate
\* to the frames of records F1..Fn followed by the sentinel frame, the rows
\* emitted are exactly F1..Fn in order, the last putb call returned True and
\* every earlier call returned False.
C1_RoundTrip ==
    \A rs \in RecordSeqs :
        (Fed = EncodeStream(rs) \o SentinelFrame /\ NEmpty = 0)
        => /\ Emitted(bbd.out) = [i \in 1..Len(rs) |-> RowOf(rs[i])]
           /\ LastRet = "True"
           /\ \A i \in 1..(Len(rets) - 1) : rets[i] = "False"

\* two different records, cut into four chunks none of which is a frame
C1_Witness ==
    /\ stream = <<>>
    /\ NEmpty = 0
    /\ Len(chunks) = 4
    /\ \E rs \in RecordSeqs :
          /\ Len(rs) = 2 /\ rs[1] # rs[2]
          /\ Fed = EncodeStream(rs) \o SentinelFrame
          /\ Len(chunks[1]) < Len(EncodeFrame(rs[1]))
          /\ Len(chunks[1]) + Len(chunks[2]) > Len(EncodeFrame(rs[1]))
    /\ Len(bbd.out) = 2
    /\ LastRet = "True"

\* a session is fed until putb returns True or raises
AliveBeforeLast == \A i \in 1..(Len(rets) - 1) : rets[i] = "False"

\* a fresh session fed the same bytes as one chunk
OneShot == Putb(InitBbd, Fed)

SameAsOneShot ==
    /\ bbd.out = OneShot.s.out
    /\ bbd.msg_count = OneShot.s.msg_count
    /\ LastRet = OneShot.res

\* whether the session meets, in the frames of byte string b, a payload the
\* codec rejects before it meets a zero length or a sentinel
RECURSIVE HasCorruptFrame(_)
HasCorruptFrame(b) ==
    IF b = <<>> \/ b[1] = 0 \/ Len(b) - 1 < b[1] THEN FALSE
    ELSE LET m == FromString(SubSeq(b, 2, b[1] + 1)) IN
         IF m.err THEN TRUE
         ELSE IF Cardinality(m.pb) = 1 THEN FALSE
         ELSE HasCorruptFrame(Drop(b, b[1] + 1))

\* C2 as claimed: for any byte stream, a session fed any splitting of it
\* into non-empty chunks emits the same records and ends with the same
\* entry count and outcome as a session fed the stream as one chunk.
C2_AnyStream ==
    (Len(chunks) >= 1 /\ NEmpty = 0 /\ AliveBeforeLast) => SameAsOneShot

\* C2 amended: the same, for byte streams in which no frame's payload
\* fails to decode.
C2_ChunkingInvariant ==
    (Len(chunks) >= 1 /\ NEmpty = 0 /\ AliveBeforeLast /\ ~HasCorruptFrame(Fed))
    => SameAsOneShot

\* one byte per chunk, a record emitted on the way
C2_Witness ==
    /\ Len(chunks) = 5
    /\ \A i \in 1..Len(chunks) : Len(chunks[i]) = 1
    /\ AliveBeforeLast
    /\ ~HasCorruptFrame(Fed)
    /\ Len(bbd.out) = 1
    /\ LastRet = "True"

\* the latest call's chunk, and the bytes buffered once it is written
LastChunk == chunks[Len(chunks)]
PreBytes == Flatten(last.pre.q)
IsOrdinary(pb) == Cardinality(pb) # 1

\* the latest call began with length byte L >= 1 read and fewer than L
\* payload bytes buffered
PartialBefore ==
    /\ Len(chunks) >= 1
    /\ last.pre.msg_size >= 1
    /\ Len(PreBytes) < last.pre.msg_size

\* C3 Partial frame stalls correctly: a call that begins with length byte L
\* read and still leaves fewer than L payload bytes buffered returns False,
\* emits nothing, counts nothing and keeps every buffered byte and L; the
\* call whose chunk completes the L bytes emits, as its first row, the
\* record of exactly those L bytes.
C3_PartialStalls ==
    PartialBefore =>
        LET L == last.pre.msg_size
            all == PreBytes \o LastChunk
            m == FromString(Take(all, L))
        IN  /\ Len(all) < L =>
                 /\ LastRet = "False"
                 /\ bbd.out = last.pre.out
                 /\ bbd.msg_count = last.pre.msg_count
                 /\ bbd.msg_size = L
                 /\ bbd.fail_count = 0
                 /\ Flatten(bbd.q) = all
            /\ (Len(all) >= L /\ ~m.err /\ IsOrdinary(m.pb)) =>
                 /\ Len(bbd.out) > Len(last.pre.out)
                 /\ Emitted(bbd.out)[Len(last.pre.out) + 1] = RowOf(MessageToOrderedDict(m.pb))
                 /\ SubSeq(bbd.out, 1, Len(last.pre.out)) = last.pre.out
                 /\ Flatten(last.mid.q) = all

\* a three byte payload that arrived in three chunks: two stalls, then the
\* record
C3_Witness ==
    /\ PartialBefore
    /\ last.pre.msg_size = 3
    /\ Len(PreBytes) = 2
    /\ Len(last.pre.q) >= 2
    /\ Len(rets) >= 3
    /\ rets[Len(rets) - 1] = "False"
    /\ Len(bbd.out) = Len(last.pre.out) + 1

\* The frames of byte string b read off without any packet buffer: size is
\* the length byte already read (None when the next byte is a length);
\* rows are the ordinary records met, end says what stopped the walk (the
\* bytes ran out, a zero length, a payload the codec rejects, a one-field
\* record) and rest the bytes after the last byte read.
RECURSIVE FrameWalk(_, _, _)
FrameWalk(size, b, rows) ==
    IF size = None
    THEN IF b = <<>> THEN [rows |-> rows, end |-> "more", rest |-> b]
         ELSE IF b[1] = 0 THEN [rows |-> rows, end |-> "zero", rest |-> Tail(b)]
         ELSE FrameWalk(b[1], Tail(b), rows)
    ELSE IF Len(b) < size THEN [rows |-> rows, end |-> "more", rest |-> b]
    ELSE LET m == FromString(Take(b, size)) IN
         IF m.err THEN [rows |-> rows, end |-> "corrupt", rest |-> b]
         ELSE IF ~IsOrdinary(m.pb)
         THEN [rows |-> rows, end |-> "done", rest |-> Drop(b, size)]
         ELSE FrameWalk(None, Drop(b, size),
                        Append(rows, RowOf(MessageToOrderedDict(m.pb))))

\* the walk over what the latest call had to read
LastWalk == FrameWalk(last.pre.msg_size, PreBytes \o LastChunk, <<>>)
RowsOfLastCall == SubSeq(Emitted(bbd.out), Len(last.pre.out) + 1, Len(bbd.out))

\* C4 Zero-length rejection: a putb call that reads a length byte 0x00
\* raises (RuntimeError) and the handler stores the error; in a session
\* that has not ended, whatever valid frames precede the zero byte in the
\* call and whatever follows it, the rows the call emits are those of the
\* frames before the zero byte and every byte after it is still buffered.
C4_ZeroLength ==
    /\ (Len(chunks) >= 1 /\ bbd.msg_size = 0) =>
           /\ LastRet = "RuntimeError"
           /\ err_fetch = "RuntimeError"
           /\ evt_fetch
    /\ (Len(chunks) >= 1 /\ NEmpty = 0 /\ AliveBeforeLast
        /\ last.pre.fail_count = 0 /\ LastWalk.end = "zero") =>
           /\ LastRet = "RuntimeError"
           /\ bbd.msg_size = 0
           /\ RowsOfLastCall = LastWalk.rows
           /\ Flatten(bbd.q) = LastWalk.rest

\* a zero length byte after a valid frame and before further bytes, all in
\* the chunk of one call
C4_Witness ==
    /\ Len(chunks) >= 2
    /\ NEmpty = 0
    /\ AliveBeforeLast
    /\ last.pre.fail_count = 0
    /\ LastWalk.end = "zero"
    /\ Len(LastWalk.rows) = 1
    /\ Len(LastWalk.rest) >= 1
    /\ LastRet = "RuntimeError"

\* the packets buffered once the latest chunk is written
WrittenQ == Append(last.pre.q, LastChunk)

\* the buffered packets laid out in the alternate order 0,2,1,3,4
RECURSIVE InOrder(_, _, _)
InOrder(q, order, k) ==
    IF k > Len(order) THEN <<>>
    ELSE (IF order[k] < Len(q) THEN q[order[k] + 1] ELSE <<>>) \o InOrder(q, order, k + 1)

AltWindow == Take(InOrder(WrittenQ, RecoveryOrder, 1), last.pre.msg_size)
CountIn(s, b) == Cardinality({i \in 1..Len(s) : s[i] = b})

\* the latest call began with a payload window that had failed to decode
\* under the natural order and that decodes under the alternate order
RecoverableBefore ==
    /\ Len(chunks) >= 1
    /\ last.pre.fail_count > 0
    /\ last.pre.msg_size >= 1
    /\ Len(AltWindow) = last.pre.msg_size
    /\ ~FromString(AltWindow).err

CandidatePermutations == <<RecoveryOrder>>

LastDump == bbd.dumps[Len(bbd.dumps)]

MoreFramesThanLimit ==
    /\ num # None
    /\ \E rs \in RecordSeqs :
          /\ Fed \o stream = EncodeStream(rs) \o SentinelFrame
          /\ Len(rs) > num

\* C7 Entry limit cutoff, as claimed: with entry limit N and more than N
\* valid frames in the stream, a handler call made while fetch is still
\* waiting never leaves more than N frames decoded or emitted, whatever the
\* chunking, and the call that ends the fetch leaves the entry count at N
\* with no error stored.
C7_EntryLimit ==
    (MoreFramesThanLimit /\ Len(chunks) >= 1 /\ ~last.evt) =>
        /\ bbd.msg_count <= num
        /\ Len(bbd.out) <= num
        /\ evt_fetch => (bbd.msg_count = num /\ err_fetch = "None")

\* a call decoded a one-field record (logged "End of log msg received")
EolInLastCall == Len(chunks) >= 1 /\ bbd.eol > last.pre.eol

\* C8 as claimed: a putb call that decodes a sentinel, in the parse loop or
\* in the retry at its start, returns True; none returns False.
C8_SentinelCompletes ==
    (EolInLastCall /\ LastRet \in {"True", "False"}) => LastRet = "True"

\* C9 as claimed: the entry counter and the history ring account for the
\* records forwarded to the output and for nothing else.
C9_CountsRecordsOnly ==
    /\ bbd.msg_count = Len(bbd.out)
    /\ Len(bbd.msg_hist) = Len(bbd.out)

\* the latest call decoded exactly one message: the newest history entry
DecodedOneInLastCall ==
    /\ Len(chunks) >= 1
    /\ bbd.msg_count = last.pre.msg_count + 1
    /\ bbd.msg_hist # <<>>
LastDecoded ==
    MessageToOrderedDict(FromString(bbd.msg_hist[Len(bbd.msg_hist)].bytes).pb)
TreatedAsEndOfStream == bbd.eol = last.pre.eol + 1 /\ bbd.out = last.pre.out
TreatedAsOrdinary ==
    /\ bbd.eol = last.pre.eol
    /\ Emitted(bbd.out) = Append(Emitted(last.pre.out), RowOf(LastDecoded))

ShortOfBytes ==
    /\ Len(chunks) >= 1
    /\ IF last.pre.fail_count > 0
       THEN Len(AltWindow) < last.pre.msg_size
       ELSE IF last.pre.msg_size = None
       THEN Flatten(WrittenQ) = <<>>
       ELSE Len(Flatten(WrittenQ)) < last.pre.msg_size

\* C11 as claimed: a putb call that has fewer bytes than the decoder needs
\* returns False without raising and leaves history, entry count and
\* fail_count as they were, in every decoder state, a pending retry
\* included.
C11_NeedMoreDataTransient ==
    ShortOfBytes =>
        /\ LastRet = "False"
        /\ bbd.msg_hist = last.pre.msg_hist
        /\ bbd.msg_count = last.pre.msg_count
        /\ bbd.fail_count = last.pre.fail_count

\* the latest putb call raised
RaisedInLastCall == Len(chunks) >= 1 /\ LastRet \notin {"True", "False"}

\* C12 as claimed: every exception that leaves putb is preceded, in the
\* same call, by one dump holding the history ring and the packets still
\* buffered.
C12_FatalDumpsFirst ==
    RaisedInLastCall =>
        /\ Len(bbd.dumps) = Len(last.pre.dumps) + 1
        /\ LastDump.hist = bbd.msg_hist
        /\ LastDump.pkts = bbd.q

\* the latest call, in a session that has not ended and has no retry
\* pending, met a payload the codec rejects in its parse loop
CorruptInLoop ==
    /\ Len(chunks) >= 1
    /\ NEmpty = 0
    /\ AliveBeforeLast
    /\ last.pre.fail_count = 0
    /\ LastWalk.end = "corrupt"

\* the length byte of the window the walk of the latest call stopped at
CorruptSize ==
    LET all == PreBytes \o LastChunk
        used == Len(all) - Len(LastWalk.rest)
    IN  IF used = 0 THEN last.pre.msg_size ELSE all[used]

\* C13 Decode failure leaves the buffer alone: after a failed decode in the
\* parse loop the rejected window is still buffered from its first byte,
\* its length is still pending, and history, entry count and output hold
\* the frames before it and nothing of it; after a failed decode in the
\* retry, packets, pending length, history, entry count and output are
\* those the call began with (its chunk written).
C13_DecodeFailureKeepsBuffer ==
    /\ CorruptInLoop =>
           /\ LastRet = "False"
           /\ bbd.fail_count = 1
           /\ Flatten(bbd.q) = LastWalk.rest
           /\ bbd.msg_size = CorruptSize
           /\ FromString(Peek(bbd.q, bbd.msg_size, NoOrder)).err
           /\ RowsOfLastCall = LastWalk.rows
           /\ bbd.msg_count = last.pre.msg_count + Len(LastWalk.rows)
           /\ Len(bbd.msg_hist) = Len(last.pre.msg_hist) + Len(LastWalk.rows)
           /\ bbd.eol = last.pre.eol
    /\ (Len(chunks) >= 1 /\ LastRet = "DecodeError") =>
           /\ bbd.q = WrittenQ
           /\ bbd.msg_size = last.pre.msg_size
           /\ bbd.msg_hist = last.pre.msg_hist
           /\ bbd.msg_count = last.pre.msg_count
           /\ bbd.out = last.pre.out

\* a rejected payload after a valid frame completed and decoded by the
\* same call
C13_Witness ==
    /\ CorruptInLoop
    /\ Len(chunks) >= 2
    /\ last.pre.msg_size >= 1
    /\ Len(LastWalk.rows) = 1
    /\ bbd.msg_size = 1
    /\ bbd.fail_count = 1
    /\ Len(bbd.out) = Len(last.pre.out) + 1

\* the window pending in the object s, read in the natural packet order
NaturalWindow(s) == Peek(s.q, s.msg_size, NoOrder)
LastHist(s) == s.msg_hist[Len(s.msg_hist)]

\* C14 Recovery is lazy: a call whose parse loop meets a rejected payload
\* returns False after that one decode attempt, the window left complete
\* in the buffer; the next call, and no call before it, appends its chunk
\* and then makes the one retry, on the window the alternate order reads
\* from the packets with that chunk among them.
C14_LazyRecovery ==
    /\ (Len(chunks) >= 1 /\ LastRet = "False" /\ bbd.fail_count > 0) =>
           /\ bbd.fail_count = 1
           /\ bbd.attempts = 1
           /\ bbd.msg_size >= 1
           /\ Len(NaturalWindow(bbd)) = bbd.msg_size
           /\ FromString(NaturalWindow(bbd)).err
    /\ (Len(chunks) >= 1 /\ last.pre.fail_count > 0
        /\ Len(AltWindow) = last.pre.msg_size) =>
           /\ IF FromString(AltWindow).err
              THEN /\ LastRet = "DecodeError"
                   /\ bbd.attempts = last.pre.attempts + 1
                   /\ LastDump.pkts = WrittenQ
              ELSE /\ last.mid.msg_count = last.pre.msg_count + 1
                   /\ LastHist(last.mid).bytes = AltWindow
                   /\ LastHist(last.mid).size = last.pre.msg_size
    /\ (Len(chunks) >= 1 /\ last.pre.fail_count = 0) =>
           /\ last.mid = [last.pre EXCEPT !.q = WrittenQ]
           /\ bbd.dumps = last.pre.dumps

\* the retry decoded a window that holds a byte of the chunk just arrived,
\* and that the call before had rejected without it
C14_Witness ==
    /\ Len(chunks) >= 3
    /\ AliveBeforeLast
    /\ last.pre.fail_count = 1
    /\ last.pre.attempts = 1
    /\ LastChunk # <<>>
    /\ AltWindow # NaturalWindow(last.pre)
    /\ ~FromString(AltWindow).err
    /\ LastHist(last.mid).bytes = AltWindow
    /\ last.mid.attempts = 2

\* the chunks fed so far with chunks i and i+1 in each other's place
SwapChunks(i) ==
    [n \in 1..Len(chunks) |->
        IF n = i THEN chunks[i + 1] ELSE IF n = i + 1 THEN chunks[i] ELSE chunks[n]]

\* the packets fed so far are those of the well-formed stream of records
\* rs, all of them delivered, two adjacent ones in swapped order
SwappedDeliveryOf(rs) ==
    /\ stream = <<>>
    /\ NEmpty = 0
    /\ \E i \in 1..(Len(chunks) - 1) :
          Flatten(SwapChunks(i)) = EncodeStream(rs) \o SentinelFrame

\* C15 as claimed: a session fed the packets of a well-formed stream with
\* two adjacent packets swapped emits the records of the stream in order
\* and its last call returns True, no call before it having raised or
\* returned True.
C15_SwapCompensated ==
    \A rs \in RecordSeqs :
        SwappedDeliveryOf(rs) =>
            /\ Emitted(bbd.out) = [i \in 1..Len(rs) |-> RowOf(rs[i])]
            /\ LastRet = "True"
            /\ AliveBeforeLast

\* the header flag handed to the output is truthy
HeaderChanged(row) == row.add_header # 0

\* C16 Header-change signalling: the header flag of an emitted record is
\* false exactly when its column set is that of the record emitted just
\* before it, and true otherwise, the first record of the session included;
\* the remembered column set is that of the latest emitted record, whatever
\* sentinel or rejected frames were met since.
C16_HeaderChange ==
    /\ \A i \in 1..Len(bbd.out) :
          /\ ~HeaderChanged(bbd.out[i]) <=> (i > 1 /\ bbd.out[i].keys = bbd.out[i - 1].keys)
          /\ bbd.out[i].add_header = 2 <=> i = 1
    /\ bbd.prev_keyset = IF bbd.out = <<>> THEN NoKeyset ELSE bbd.out[Len(bbd.out)].keys

\* two records with the same columns emitted one after the other, then the
\* sentinel decoded
C16_Witness ==
    /\ Len(bbd.out) = 2
    /\ bbd.out[1].keys = bbd.out[2].keys
    /\ HeaderChanged(bbd.out[1])
    /\ ~HeaderChanged(bbd.out[2])
    /\ bbd.eol = 1
    /\ LastRet = "True"

\* a pending length is unset or a length a frame can have
LengthUnsetOrPositive(s) == s.msg_size = None \/ s.msg_size \in 1..255

\* C17 as claimed: in every reachable state the pending length is unset or
\* in 1..255, between the retry and the parse loop of a call as well, and
\* it is unset when a call has returned True; it never holds 0.
C17_PendingLengthKnown ==
    /\ LengthUnsetOrPositive(bbd)
    /\ LengthUnsetOrPositive(last.mid)
    /\ (Len(chunks) >= 1 /\ LastRet = "True") => bbd.msg_size = None

\* the latest call began awaiting a length with no retry pending: the first
\* thing it did with the buffer, its chunk written, was getc
GetcInLastCall ==
    /\ Len(chunks) >= 1
    /\ last.pre.msg_size = None
    /\ last.pre.fail_count = 0

\* C18 as claimed: getc on a buffer that holds a byte returns the first
\* byte of the buffered stream and removes that byte only, so the call
\* goes on with a length read; on a buffer that holds no byte it raises
\* EOFError and changes nothing.
C18_GetcHead ==
    GetcInLastCall =>
        LET g == Getc(WrittenQ)
            buffered == Flatten(WrittenQ)
        IN  IF buffered # <<>>
            THEN /\ ~g.err
                 /\ g.c = buffered[1]
                 /\ Flatten(g.q) = Tail(buffered)
                 /\ bbd # last.mid
            ELSE /\ g.err
                 /\ g.q = WrittenQ
                 /\ bbd = last.mid
                 /\ LastRet = "False"

\* How many bytes of each packet a read of size bytes takes when it goes
\* through the packets in the given order, a packet at a time from its
\* first byte: took[i] for packet i (counted from 1), -1 for a packet the
\* read does not come to.
RECURSIVE TakenFrom(_, _, _, _, _)
TakenFrom(q, order, k, remains, took) ==
    IF k > Len(order) \/ remains <= 0 THEN took
    ELSE IF order[k] >= Len(q) THEN took
    ELSE LET i == order[k] + 1
             n == IF remains < Len(q[i]) THEN remains ELSE Len(q[i])
         IN  TakenFrom(q, order, k + 1, remains - n, [took EXCEPT ![i] = n])

Taken(q, size, pkt_order) ==
    TakenFrom(q, OrderOf(q, pkt_order), 1, size, [i \in 1..Len(q) |-> -1])

\* the bytes such a read returns
RECURSIVE ReadInOrder(_, _, _, _)
ReadInOrder(q, order, k, took) ==
    IF k > Len(order) THEN <<>>
    ELSE (IF order[k] < Len(q) /\ took[order[k] + 1] > 0
          THEN Take(q[order[k] + 1], took[order[k] + 1]) ELSE <<>>)
         \o ReadInOrder(q, order, k + 1, took)

\* the packets left when the bytes read are removed: a packet read to its
\* end is gone, a packet read in part has lost its first bytes, any other
\* packet is as it was, all in their old order
RECURSIVE LeftAfter(_, _, _)
LeftAfter(q, took, i) ==
    IF i > Len(q) THEN <<>>
    ELSE (IF took[i] = Len(q[i]) THEN <<>>
          ELSE IF took[i] > 0 THEN <<Drop(q[i], took[i])>>
          ELSE <<q[i]>>)
         \o LeftAfter(q, took, i + 1)

PacketOrders == {NoOrder, RecoveryOrder}
ReadSizes == 0..(MaxSwapLen + 1)

\* C19 seek_fwd is consistent with peek: on the packets a call finds
\* buffered, for every size and either packet order, when peek returns size
\* bytes seek_fwd removes exactly those bytes (packets read to their end
\* deleted, the one read in part truncated, the others untouched and in
\* order), and when peek returns fewer seek_fwd raises EOFError and leaves
\* the packets as they were; the retry of a call and its first frame are
\* consumed that way.
C19_SeekMatchesPeek ==
    Len(chunks) >= 1 =>
        /\ \A size \in ReadSizes : \A pkt_order \in PacketOrders :
              LET pk == Peek(WrittenQ, size, pkt_order)
                  sk == SeekFwd(WrittenQ, size, pkt_order)
                  took == Taken(WrittenQ, size, pkt_order)
              IN  /\ pk = ReadInOrder(WrittenQ, OrderOf(WrittenQ, pkt_order), 1, took)
                  /\ Len(pk) = size => (~sk.err /\ sk.q = LeftAfter(WrittenQ, took, 1))
                  /\ Len(pk) < size => (sk.err /\ sk.q = WrittenQ)
        /\ (RecoverableBefore /\ LastRet \in {"True", "False"}) =>
              last.mid.q = LeftAfter(WrittenQ, Taken(WrittenQ, last.pre.msg_size, RecoveryOrder), 1)

\* a retry that read the oldest packet to its end and the newest in part,
\* leaving the packet between them untouched
C19_Witness ==
    /\ RecoverableBefore
    /\ LastRet \in {"True", "False"}
    /\ Len(WrittenQ) = 3
    /\ Taken(WrittenQ, last.pre.msg_size, RecoveryOrder) = <<1, -1, 1>>
    /\ Len(WrittenQ[3]) = 2
    /\ last.mid.q = <<WrittenQ[2], Tail(WrittenQ[3])>>

\* the latest call began with a length pending: the first thing it did with
\* the buffer, its chunk written, was peek, under the alternate order when a
\* retry was pending and under the natural order otherwise
PeekInLastCall == Len(chunks) >= 1 /\ last.pre.msg_size >= 1
LastPeekOrder == IF last.pre.fail_count > 0 THEN RecoveryOrder ELSE NoOrder
LastPeek == Peek(WrittenQ, last.pre.msg_size, LastPeekOrder)

\* C20 as claimed: the peek of a call returns, under the natural order, the
\* first min(size, bytes buffered) bytes of the buffered stream and, under
\* the order 0,2,1,3,4, the first bytes of the packets laid out in that
\* order; it returns fewer than size bytes only when fewer than size bytes
\* are buffered, so that a call with enough bytes buffered does not end in
\* EOFError.
C20_PeekPrefix ==
    PeekInLastCall =>
        /\ last.pre.fail_count = 0 =>
               LastPeek = Take(Flatten(WrittenQ), last.pre.msg_size)
        /\ last.pre.fail_count > 0 => LastPeek = AltWindow
        /\ Len(LastPeek) < last.pre.msg_size =>
               Len(Flatten(WrittenQ)) < last.pre.msg_size
        /\ Len(Flatten(WrittenQ)) >= last.pre.msg_size => LastRet # "EOFError"

\* ---------------------------------------------------------------- C21

RECURSIVE SumLen(_)
SumLen(q) == IF q = <<>> THEN 0 ELSE Len(Head(q)) + SumLen(Tail(q))

\* q2 is q with whole packets retired and bytes removed from the front of
\* the oldest packet that is left, and nothing else
FrontOnly(q, q2) ==
    \E D \in SUBSET (0..(Len(q) - 1)) :
        LET rest == DelIdx(q, D, 1) IN
        \/ q2 = rest
        \/ /\ rest # <<>>
           /\ \E n \in 1..Len(rest[1]) : q2 = <<Drop(rest[1], n)>> \o Tail(rest)

\* the latest call made the retry and the retry consumed its window
RetryConsumed ==
    /\ Len(chunks) >= 1
    /\ last.pre.fail_count > 0
    /\ last.mid.fail_count = 0

\* C21 as claimed: the bytes available are the sum of the lengths of the
\* buffered packets, and what a putb call consumes, in its retry under the
\* recovery permutation and in its parse loop under the natural order, is
\* taken from the front of the oldest packet or is whole packets.
C21_FrontConsumption ==
    /\ Len(Flatten(bbd.q)) = SumLen(bbd.q)
    /\ Len(chunks) >= 1 =>
          /\ RetryConsumed => FrontOnly(WrittenQ, last.mid.q)
          /\ FrontOnly(last.mid.q, bbd.q)

\* ---------------------------------------------------------------- C22

\* the buffer of the latest call once its chunk is appended and, when the
\* call retried, the retry has consumed its window
AfterWrite ==
    LET w == Append(last.pre.q, LastChunk) IN
    IF last.pre.fail_count > 0 /\ last.mid.fail_count = 0
    THEN SeekFwd(w, last.pre.msg_size, RecoveryOrder).q
    ELSE w

\* C22 write is bounded: a putb call that finds fewer than 128 packets
\* buffered appends its chunk at the tail; one that finds 128 raises
\* RuntimeError and leaves the queue, and the whole object, as it was; the
\* buffer never holds more than 128 packets.
C22_WriteBounded ==
    /\ Len(bbd.q) <= PktBufMaxLen
    /\ Len(chunks) >= 1 =>
          IF Len(last.pre.q) >= PktBufMaxLen
          THEN LastRet = "RuntimeError" /\ bbd = last.pre
          ELSE last.mid.q = AfterWrite

\* a call on a full buffer, after a call that filled the last place
C22_Witness ==
    /\ Len(chunks) >= 2
    /\ Len(last.pre.q) = PktBufMaxLen
    /\ LastChunk # <<>>
    /\ chunks[Len(chunks) - 1] # <<>>
    /\ LastRet = "RuntimeError"
    /\ rets[Len(rets) - 1] = "False"
    /\ bbd.q = last.pre.q

\* ---------------------------------------------------------------- C23

\* the latest call once its chunk is written and the length byte is known
LastHeader == ReadMsgSize([last.pre EXCEPT !.q = WrittenQ])
\* the payload window the latest call reads first
LastWindow == Peek(LastHeader.s.q, LastHeader.s.msg_size, LastPeekOrder)

\* the latest call decoded a payload and went on to convert the message
ConvertedInLastCall ==
    /\ Len(chunks) >= 1
    /\ LastHeader.res = "ok"
    /\ Len(LastWindow) = LastHeader.s.msg_size
    /\ ~FromString(LastWindow).err

\* C23 Unknown field name is a hard error: in a session whose schema has a
\* name the field table lacks, a putb call that decodes a payload raises
\* KeyError at the conversion; nothing of the frame is emitted, counted or
\* logged in the history, the length stays pending and the payload stays
\* buffered, and the handler stores the error and ends the fetch.  putb
\* raises KeyError in no other case.
C23_UnknownFieldFatal ==
    /\ ConvertedInLastCall =>
          /\ LastRet = "KeyError"
          /\ bbd.out = last.pre.out
          /\ bbd.eol = last.pre.eol
          /\ bbd.msg_count = last.pre.msg_count
          /\ bbd.msg_hist = last.pre.msg_hist
          /\ bbd.msg_size = LastHeader.s.msg_size
          /\ bbd.q = LastHeader.s.q
          /\ Peek(bbd.q, bbd.msg_size, LastPeekOrder) = LastWindow
          /\ err_fetch = "KeyError"
          /\ evt_fetch
    /\ (Len(chunks) >= 1 /\ LastRet = "KeyError") => ConvertedInLastCall

\* a frame of two payload bytes that arrives in two chunks
C23_Witness ==
    /\ Len(chunks) = 2
    /\ rets = <<"False", "KeyError">>
    /\ last.pre.msg_size = 2
    /\ Len(PreBytes) = 1
    /\ ConvertedInLastCall
    /\ Len(LastWindow) = 2
    /\ bbd.out = <<>>
    /\ Flatten(bbd.q) = PreBytes \o LastChunk

\* ---------------------------------------------------------------- C24

Min(a, b) == IF a < b THEN a ELSE b

\* frames consumed by the latest call, and the history entries it added
ConsumedInLastCall == bbd.msg_count - last.pre.msg_count
NewEntries ==
    SubSeq(bbd.msg_hist, Len(bbd.msg_hist) - Min(ConsumedInLastCall, msg_hist_len) + 1,
           Len(bbd.msg_hist))

\* the bytes of the frames in entries es, the length byte of the first left
\* out when it was read by an earlier call
RECURSIVE FrameBytes(_, _)
FrameBytes(es, with_size) ==
    IF es = <<>> THEN <<>>
    ELSE (IF with_size THEN <<Head(es).size>> ELSE <<>>) \o Head(es).bytes
         \o FrameBytes(Tail(es), TRUE)

\* the length byte that the latest call read and left pending
PendingHeader ==
    IF bbd.msg_size # None /\ (ConsumedInLastCall > 0 \/ last.pre.msg_size = None)
    THEN <<bbd.msg_size>> ELSE <<>>

\* C24 The history ring is bounded: it never holds more than msg_hist_len
\* entries; it holds the entries of the most recent min(msg_count, 32)
\* frames, numbered consecutively up to msg_count - 1; a call keeps the
\* entries it found in their order, discarding the oldest first, and adds
\* behind them one entry per frame it consumed, in the order the frames
\* were decoded.
C24_HistBounded ==
    LET h == bbd.msg_hist
        old == last.pre.msg_hist
        kept == Len(h) - Len(NewEntries)
    IN  /\ Len(h) <= msg_hist_len
        /\ Len(h) = Min(bbd.msg_count, msg_hist_len)
        /\ \A i \in 1..Len(h) : h[i].count = bbd.msg_count - Len(h) + i - 1
        /\ \A i \in 1..Len(h) : h[i].size = Len(h[i].bytes)
        /\ Len(chunks) >= 1 =>
              /\ ConsumedInLastCall >= 0
              /\ kept <= Len(old)
              /\ SubSeq(h, 1, kept) = SubSeq(old, Len(old) - kept + 1, Len(old))
              /\ (last.pre.fail_count = 0 /\ ConsumedInLastCall <= msg_hist_len) =>
                    FrameBytes(NewEntries, last.pre.msg_size = None)
                        \o PendingHeader \o Flatten(bbd.q) = PreBytes \o LastChunk

\* a call that finds the ring full and consumes a frame split over two
\* chunks: the oldest entry goes, the new one is the last
C24_Witness ==
    /\ Len(last.pre.msg_hist) = msg_hist_len
    /\ last.pre.msg_size = 2
    /\ ConsumedInLastCall = 1
    /\ Len(bbd.msg_hist) = msg_hist_len
    /\ bbd.msg_hist[1] = last.pre.msg_hist[2]
    /\ bbd.msg_hist[msg_hist_len].count = last.pre.msg_hist[msg_hist_len].count + 1
    /\ bbd.msg_hist[msg_hist_len].bytes = PreBytes \o LastChunk
    /\ bbd.msg_hist[msg_hist_len].bytes # Drop(LoggedFrame, 1)

\* ---------------------------------------------------------------- C25

\* the entry limit was reached when the latest call began
LimitReachedBefore == num # None /\ num # 0 /\ last.pre.msg_count >= num

\* C25 as claimed: putb is called once per notification and is not called
\* again once a call has returned True or raised or the entry limit has been
\* reached: every call but the latest returned False and left the entry
\* count below the limit, and the event was not set when the latest began.
C25_NoFeedAfterDone ==
    Len(chunks) >= 1 =>
        /\ Len(rets) = Len(chunks)
        /\ AliveBeforeLast
        /\ ~LimitReachedBefore
        /\ ~last.evt

\* ---------------------------------------------------------------- C26

IsException(ret) == ret \notin {"True", "False"}
SomeRaised == \E i \in 1..Len(rets) : IsException(rets[i])

\* C26 An exception of putb is not lost: the handler call in which putb
\* raised stores the exception and sets the event; from then on an exception
\* is stored and the event is set, so that the wait of fetch ends; fetch
\* calls stop_notify exactly when the device had not disconnected before
\* it tested is_connected, and it ends by raising the stored exception,
\* returning normally only when no putb call raised.
C26_ErrorNotLost ==
    /\ (Len(chunks) >= 1 /\ IsException(LastRet)) => err_fetch = LastRet
    /\ SomeRaised => (err_fetch # "None" /\ evt_fetch)
    /\ (cli.op = "fetch" /\ cli.pc \in {"stop", "end"}) =>
          /\ cli.stop_calls = (IF cli.disconnected_at \in {"start", "wait"} THEN 0 ELSE 1)
          /\ cli.seen_connected = (IF cli.stop_calls = 1 THEN "True" ELSE "False")
    /\ (cli.op = "fetch" /\ cli.pc = "end") =>
          IF SomeRaised
          THEN /\ cli.result = err_fetch
               /\ \E i \in 1..Len(rets) : IsException(rets[i]) /\ cli.result = rets[i]
          ELSE cli.result = "returned"

\* putb raised after an earlier call had returned False, fetch stopped the
\* notifications of the connected client and raised
C26_Witness ==
    /\ cli.op = "fetch"
    /\ cli.pc = "end"
    /\ cli.connected
    /\ rets = <<"False", "DecodeError">>
    /\ cli.stop_calls = 1
    /\ cli.result = "DecodeError"

\* ---------------------------------------------------------------- C27

\* the exception of the first putb call that raised
FirstRaised ==
    rets[CHOOSE i \in 1..Len(rets) :
            /\ IsException(rets[i])
            /\ \A j \in 1..(i - 1) : ~IsException(rets[j])]

\* C27 as claimed: when putb raised in one or more handler calls of a
\* fetch, the exception that fetch raises is that of the first call that
\* raised.
C27_FirstErrorRaised ==
    (cli.op = "fetch" /\ cli.pc = "end" /\ SomeRaised) => cli.result = FirstRaised

\* ---------------------------------------------------------------- C28

\* the device disconnected before the coroutine tested is_connected
DisconnectedBeforeTest ==
    cli.disconnected_at \in {"start", "wait", "cmd_start", "cmd_write", "cmd_wait"}

DisconnectAborts ==
    /\ ~cli.connected =>
          /\ evt_fetch
          /\ cli.evt_cmd
          /\ ~cli.notify
          /\ cli.disconnected_at # "None"
    /\ cli.stop_calls = 1 => cli.seen_connected = "True"
    /\ DisconnectedBeforeTest => cli.stop_calls = 0
    /\ (DisconnectedBeforeTest /\ cli.seen_connected # "None") =>
          /\ cli.seen_connected = "False"
          /\ cli.pc \in {"end", "cmd_sleep"}

OtherClientIgnored ==
    cli'.warned # cli.warned =>
        /\ evt_fetch' = evt_fetch
        /\ cli' = [cli EXCEPT !.warned = @ + 1]

\* C28 A disconnect aborts the pending wait: once the disconnect callback
\* of this client has run, both events are set and no notification is
\* handled; a coroutine that had not yet tested is_connected finds the
\* client disconnected, does not call stop_notify and comes to its end; the
\* callback of another client changes neither event.
C28_DisconnectAborts ==
    /\ []DisconnectAborts
    /\ [][OtherClientIgnored]_vars
    /\ (~cli.connected) ~> (cli.pc = "end")

\* the device disconnects while fetch waits and no call has ended the
\* fetch; fetch returns without a stop_notify call
C28_Witness ==
    /\ cli.op = "fetch"
    /\ cli.pc = "end"
    /\ cli.disconnected_at = "wait"
    /\ Len(rets) >= 1
    /\ \A i \in 1..Len(rets) : rets[i] = "False"
    /\ cli.stop_calls = 0
    /\ cli.result = "returned"
    /\ cli.warned = 1

\* ---------------------------------------------------------------- C29

IsNonEmpty(c) == c # <<>>

\* a fresh session fed the same chunks without the empty ones
WithoutEmpty == FeedAll(InitBbd, SelectSeq(chunks, IsNonEmpty), 1)

\* C29 as claimed: an empty chunk is a no-op for decoding: a session that
\* is still being fed has emitted the same records and counted the same
\* entries as a session fed the same chunks without the empty ones.
C29_EmptyChunkNoOp ==
    (Len(chunks) >= 1 /\ AliveBeforeLast) =>
        /\ bbd.out = WithoutEmpty.out
        /\ bbd.msg_count = WithoutEmpty.msg_count

\* ---------------------------------------------------------------- C30

\* fail_count is 0 or 1, and 1 only with a length pending whose payload
\* window is buffered in full and is rejected by the codec
FailCountInBudget ==
    /\ bbd.fail_count \in {0, 1}
    /\ bbd.fail_count = 1 =>
          /\ bbd.msg_size >= 1
          /\ Len(NaturalWindow(bbd)) = bbd.msg_size
          /\ FromString(NaturalWindow(bbd)).err

StartedFailed == Len(chunks) >= 1 /\ last.pre.fail_count = 1

\* C30 as claimed: fail_count is 0 or 1 at every return from putb, 1 only
\* while the pending window has failed to decode and its length is set, and
\* a call that starts with fail_count = 1 returns with fail_count = 0 or
\* raises.
C30_ResetOrRaise ==
    /\ FailCountInBudget
    /\ StartedFailed => (bbd.fail_count = 0 \/ IsException(LastRet))

\* C30 amended: the same, but a call that starts with fail_count = 1 either
\* raises out of its retry, fail_count staying 1 and nothing consumed, or
\* recovers: the retry consumes the window and resets fail_count to 0, and
\* the parse loop of the same call goes on, so that the call may return
\* False with fail_count = 1 again, for a later window.
C30_FailCountBounded ==
    /\ FailCountInBudget
    /\ StartedFailed =>
          IF last.mid.fail_count = 1
          THEN /\ LastRet \in {"DecodeError", "EOFError"}
               /\ bbd.fail_count = 1
               /\ bbd.q = WrittenQ
               /\ bbd.msg_count = last.pre.msg_count
               /\ bbd.msg_size = last.pre.msg_size
          ELSE /\ last.mid.fail_count = 0
               /\ last.mid.msg_count = last.pre.msg_count + 1
               /\ last.mid.msg_size = None
               /\ bbd.fail_count = 1 =>
                     /\ LastRet = "False"
                     /\ LastHist(bbd).count >= last.pre.msg_count

\* a call that recovers a window and meets a rejected payload after it
C30_Witness ==
    /\ StartedFailed
    /\ last.mid.fail_count = 0
    /\ bbd.fail_count = 1
    /\ LastRet = "False"
    /\ bbd.msg_count = last.pre.msg_count + 1
    /\ FromString(NaturalWindow(bbd)).err

\* ---- C31

\* the objects of the firmware from the resume offset on
ObjectOffsets ==
    {o \in dfu.resume..(dfu.len - 1) : (o - dfu.resume) % dfu.max_size = 0}

\* object o was created, streamed and validated, and executed, in this order
ObjectSent(o) ==
    \E a, b, c \in DOMAIN dfu.log :
        /\ a < b /\ b < c
        /\ dfu.log[a] = <<"create", o>>
        /\ dfu.log[b] = <<"valid", o>>
        /\ dfu.log[c] = <<"execute", o>>

ExecutedInOrder ==
    \A a, b \in DOMAIN dfu.log :
        (a < b /\ dfu.log[a][1] = "execute" /\ dfu.log[b][1] = "execute")
            => dfu.log[a][2] < dfu.log[b][2]

Creates(o) == Cardinality({k \in DOMAIN dfu.log : dfu.log[k] = <<"create", o>>})

\* a failed validation of object o is followed by another attempt on o, or
\* the attempt is still the current one, or the call has raised
FailedObjectRetried ==
    \A k \in DOMAIN dfu.log :
        dfu.log[k][1] = "invalid" =>
            LET o == dfu.log[k][2] IN
            \/ \E j \in DOMAIN dfu.log : j > k /\ dfu.log[j] = <<"create", o>>
            \/ dfu.result = "NordicSemiException"
            \/ dfu.result = "None" /\ dfu.i = o

\* C31: send_firmware returns normally only if every object from the resume
\* offset to the end of the firmware was created, streamed, validated and
\* executed, in increasing offset order; an object whose validation failed
\* is retried, at most RETRIES_NUMBER attempts in all, or the call raises
\* NordicSemiException, and the object is never skipped.
C31_NoObjectSkipped ==
    dfu.op = "firmware" =>
        /\ dfu.result = "returned" =>
              (ExecutedInOrder /\ \A o \in ObjectOffsets : ObjectSent(o))
        /\ FailedObjectRetried
        /\ \A o \in 0..dfu.len : Creates(o) <= RETRIES_NUMBER

\* ---- C32

Invalids == Cardinality({k \in DOMAIN dfu.log : dfu.log[k][1] = "invalid"})

\* C32: send_init_packet makes up to RETRIES_NUMBER create/stream/execute
\* attempts, retrying after a ValidationException; it raises
\* NordicSemiException when every attempt failed its validation, and it
\* returns normally only after an attempt (or the recovery of a packet the
\* device already holds) whose validation and execute succeeded.
C32_InitPacketRetried ==
    dfu.op = "init" =>
        /\ dfu.result = "returned" => (dfu.recovered \/ ObjectSent(0))
        /\ FailedObjectRetried
        /\ Creates(0) <= RETRIES_NUMBER
        /\ Invalids = RETRIES_NUMBER => dfu.result = "NordicSemiException"
        /\ dfu.result = "NordicSemiException" => Invalids = RETRIES_NUMBER

\* ---- C33

\* the bytes received are exactly the response expected
ExactResponse ==
    /\ Len(cli.rxdata) = cli.rxsize
    /\ cli.rxdata[1] = cli.opcode + 128

PasscodeSent == \E k \in DOMAIN lock.sent : lock.sent[k] = "SET_PASSCODE"

\* nothing was written but the status query
OnlyStatusRead == lock.sent = <<"GET_PASSCODE_STATE">>

\* C34: SET_PASSCODE is sent only in permitted passcode states.  During
\* connect it is sent only if a password was supplied and the device
\* reports INIT or UNVERIFIED; with UNVERIFIED and no password connect
\* disconnects and raises ValueError without a passcode write; with
\* VERIFIED or DISABLED nothing is written.  set_password sends it only
\* when the device reports INIT and otherwise raises RuntimeError without
\* writing.
C34_PasscodeOnlyWhenPermitted ==
    /\ lock.op = "connect" =>
        /\ PasscodeSent =>
              /\ lock.password # NoPassword
              /\ lock.rc \in {PASSCODE_INIT, PASSCODE_UNVERIFIED}
        /\ (lock.rc = PASSCODE_UNVERIFIED /\ lock.password = NoPassword
                /\ lock.pc = "end") =>
              /\ lock.result = "ValueError"
              /\ ~lock.connected
              /\ OnlyStatusRead
        /\ lock.rc \in {PASSCODE_VERIFIED, PASSCODE_DISABLED} =>
              /\ OnlyStatusRead
              /\ lock.result = "returned"
    /\ lock.op = "set_password" =>
        /\ PasscodeSent => lock.rc = PASSCODE_INIT
        /\ (lock.rc # None /\ lock.rc # PASSCODE_INIT) =>
              /\ lock.result = "RuntimeError"
              /\ OnlyStatusRead
        /\ lock.password = NoPassword => lock.sent = <<>>

\* connect has unlocked a device that reported UNVERIFIED
C34_Witness ==
    /\ lock.op = "connect"
    /\ lock.rc = PASSCODE_UNVERIFIED
    /\ lock.sent = <<"GET_PASSCODE_STATE", "SET_PASSCODE">>
    /\ lock.result = "returned"

\* ---- C35

\* the bits that are 1 in a mask
Bits(x) == {i \in 0..15 : (x \div (2 ^ i)) % 2 = 1}

\* the sensors passed as on and as off
SensorsOn == {k \in ConfKeys : IsSensor(k) /\ conf.kwargs[k] = 1}
SensorsOff == {k \in ConfKeys : IsSensor(k) /\ conf.kwargs[k] = 0}

MaskBits(ks) == UNION {Bits(SensorMask[k]) : k \in ks}

MaskIo == {k \in DOMAIN conf.io : conf.io[k][2] = "C_CFG_SENSOR_ENABLE"}

\* C35: config_write changes only the named sensor bits.  The mask written
\* is (old AND NOT clr) OR set, with set and clr the OR of the enable masks
\* of the sensors passed as on and as off; the bits of sensors not named or
\* passed as None are unchanged and unknown keys are ignored; the mask
\* characteristic is neither read nor written when no sensor argument has a
\* value.
C35_OnlyNamedSensorBits ==
    conf.op = "config_write" =>
        /\ conf.pc # "enter" =>
              /\ Bits(conf.setMask) = MaskBits(SensorsOn)
              /\ Bits(conf.clrMask) = MaskBits(SensorsOff)
        /\ (SensorsOn \cup SensorsOff = {}) => MaskIo = {}
        /\ \A k \in MaskIo :
              /\ conf.io[k][1] = "read" =>
                    conf.io[k][3] = conf.old_mask /\ \A j \in MaskIo : k <= j
              /\ conf.io[k][1] = "write" =>
                    /\ Bits(conf.io[k][3]) =
                          (Bits(conf.old_mask) \ MaskBits(SensorsOff))
                              \cup MaskBits(SensorsOn)
                    /\ k - 1 \in MaskIo
        /\ Cardinality(MaskIo) <= 2
        /\ (conf.pc = "end" /\ SensorsOn \cup SensorsOff # {}) =>
              /\ Cardinality(MaskIo) = 2
              /\ Bits(conf.dev_mask) =
                    (Bits(conf.old_mask) \ MaskBits(SensorsOff))
                        \cup MaskBits(SensorsOn)

\* a call that switched one sensor on and another off while a third was
\* passed as None and an unknown key was given
C35_Witness ==
    /\ conf.op = "config_write"
    /\ conf.pc = "end"
    /\ conf.kwargs["pressure"] = 0
    /\ conf.kwargs["uvi"] = 1
    /\ conf.kwargs["temp"] = None
    /\ conf.kwargs["bogus"] = 1
    /\ conf.kwargs["batvolt"] = NotPassed
    /\ conf.old_mask = 5
    /\ conf.dev_mask = 260

\* ---- C36

\* the address one above, on the six bytes: the last byte below ff is
\* raised and the bytes after it become 00; ff:ff:ff:ff:ff:ff gives zero
RECURSIVE IncBytes(_, _)
IncBytes(ba, i) ==
    IF i = 0 THEN ba
    ELSE IF ba[i] < 255 THEN [ba EXCEPT ![i] = @ + 1]
    ELSE IncBytes([ba EXCEPT ![i] = 0], i - 1)

RECURSIVE DecBytes(_, _)
DecBytes(ba, i) ==
    IF i = 0 THEN ba
    ELSE IF ba[i] > 0 THEN [ba EXCEPT ![i] = @ - 1]
    ELSE DecBytes([ba EXCEPT ![i] = 255], i - 1)

\* C36: dfu_addr() is the 48-bit address plus one modulo 2^48 and app_addr()
\* the address minus one modulo 2^48, so that app_addr(dfu_addr(a)) = a and
\* dfu_addr(app_addr(a)) = a for every 48-bit address a, ff:ff:ff:ff:ff:ff
\* and 00:00:00:00:00:00 included.
C36_AddressRoundTrip ==
    addr.op = "address" =>
        /\ addr.calls = <<>> => ToBytes(addr.cur) = addr.start
        /\ addr.calls = <<"dfu_addr">> =>
              ToBytes(addr.cur) = IncBytes(addr.start, 6)
        /\ addr.calls = <<"app_addr">> =>
              ToBytes(addr.cur) = DecBytes(addr.start, 6)
        /\ addr.calls \in {<<"dfu_addr", "app_addr">>, <<"app_addr", "dfu_addr">>} =>
              /\ addr.cur = FromBytes(addr.start)
              /\ ToBytes(addr.cur) = addr.start
        /\ addr.cur[1] \in 0..(Limb - 1)
        /\ addr.cur[2] \in 0..(Limb - 1)

\* the round trip of ff:ff:ff:ff:ff:ff through 00:00:00:00:00:00
C36_Witness ==
    /\ addr.op = "address"
    /\ addr.start = <<255, 255, 255, 255, 255, 255>>
    /\ addr.calls = <<"dfu_addr", "app_addr">>
    /\ addr.cur = <<Limb - 1, Limb - 1>>

\* ---- C37

Issued(call) == \E k \in DOMAIN adp.issued : adp.issued[k] = call

\* C37: scan always stops what it started: whenever StartDiscovery was
\* issued, StopDiscovery is issued before scan returns or raises, also when
\* the wait for the start confirmation times out; the polling loop ends
\* after at most 6 rounds, the timeout or the first matching device.
C37_ScanStopsWhatItStarted ==
    adp.op = "scan" =>
        /\ (adp.pc = "end" /\ Issued("StartDiscovery")) => Issued("StopDiscovery")
        /\ adp.rounds <= maxAttempts
        /\ (adp.pc = "poll" /\ adp.rounds > 0) => ~adp.found

\* ---- C38

\* the bytes of the stream that the object still holds, in order
Held == ntf.ba \o ntf.partial \o Flatten(ntf.queue)

\* C38: sized notification reads deliver every byte exactly once and in
\* arrival order: the results of the successive read(len_=n) calls,
\* concatenated, are a prefix of the concatenated notification payloads,
\* every successful call returns exactly n bytes and keeps the surplus for
\* the next read, also when a read in between timed out part-way.
C38_SizedReadsInOrder ==
    ntf.op = "read" =>
        /\ ntf.results = Bytes(1, Len(ntf.results))
        /\ ntf.results \o Held = Bytes(1, ntf.sent)

====
